---- MODULE Spec2Model ----
(***************************************************************************)
(* Model of the Entire CLI checkpoint engine.                              *)
(*                                                                         *)
(*   part 1  shadow branch names: shadowBranchPattern, IsShadowBranch      *)
(*   part 2  the shadow-branch janitor: ListShadowBranches,                *)
(*           DeleteShadowBranches, runClean, runCleanWithBranches          *)
(*   part 3  session reservation of the per-base shadow branch             *)
(*   part 4  entire resume: runResume, resumeFromCurrentBranch,            *)
(*           checkRemoteMetadata, resumeSession                            *)
(*   part 5  the commit message of a squashed branch: BuildFullMessage     *)
(*   part 6  entire summarize: ValidateSummarize, CreateSquashedBranch,    *)
(*           runSummarize                                                  *)
(*   part 7  the description derived from a prompt: cleanPromptForCommit,  *)
(*           generateCommitMessage                                         *)
(*   part 8  .worktrees in .gitignore: EnsureWorktreesInGitignore          *)
(*   part 9  entire start: runStart, runStartWithCheckout,                 *)
(*           runStartWithWorktree                                          *)
(*   part 10 the git hooks of InstallGitHook and the user commit           *)
(*   part 11 the attribution record of a user commit                       *)
(*                                                                         *)
(* A string is a sequence of one-character strings, so that a name can be  *)
(* matched character by character the way the regular expression does.     *)
(***************************************************************************)
EXTENDS Integers, Sequences, FiniteSets, TLC

VARIABLES
    branchName,   \* part 1: the argument handed to IsShadowBranch
    verdict,      \* part 1: what IsShadowBranch returned, "true" or "false" ("unset" before the call)
    refs,         \* part 2: the repository's references, a set of [kind, name, hash]
    call,         \* part 2: the last janitor call with its arguments and results
    shadow,       \* part 3: the shadow branch of the base commit: its commits, <<>> if absent
    stateFiles,   \* part 3: session ids with a file under entire-sessions/
    lock,         \* part 3: holder of entire-sessions/.lock, or Free
    inv,          \* part 3: the CLI invocations in flight
    resumeRepo,   \* part 4: what "entire resume" works on: worktree, branches, metadata, session logs
    resumeCall,   \* part 4: the last run of "entire resume" with its output and result
    msgInput,     \* part 5: message, trailers and map iteration order given to the message builder
    fullMessage,  \* part 5: the commit message built from msgInput
    sumRepo,      \* part 6: what "entire summarize" works on: branches, HEAD, worktree, origin
    sumCall,      \* part 6: the last call of the summarize functions with its result
    promptRun,    \* part 7: one call of generateCommitMessage: the prompt, the loop variable, the result
    gitignore,    \* part 8: the .gitignore file: whether it exists and its bytes
    ignoreRun,    \* part 8: the calls of EnsureWorktreesInGitignore so far and the last one
    startRepo,    \* part 9: what "entire start" works on: branches, HEAD, worktrees, files
    startRun,     \* part 9: the run of "entire start" with its arguments and result
    commitRun,    \* part 10: the user commit under way: its state, message and the last hook run
    checkpoints,  \* part 10: the user commits a checkpoint was recorded for
    attrRun       \* part 11: the session and commit whose attribution is computed

nameVars == <<branchName, verdict>>
repoVars == <<refs, call>>
sessVars == <<shadow, stateFiles, lock, inv>>
resumeVars == <<resumeRepo, resumeCall>>
msgVars == <<msgInput, fullMessage>>
sumVars == <<sumRepo, sumCall>>
promptVars == <<promptRun>>
ignoreVars == <<gitignore, ignoreRun>>
startVars == <<startRepo, startRun>>
hookVars == <<commitRun, checkpoints>>
attrVars == <<attrRun>>
vars == <<branchName, verdict, refs, call, shadow, stateFiles, lock, inv,
          resumeRepo, resumeCall, msgInput, fullMessage, sumRepo, sumCall,
          promptRun,
          gitignore, ignoreRun,
          startRepo, startRun,
          commitRun, checkpoints,
          attrRun>>

\* What the actions of one part leave alone: the variables of the others.
exceptName == <<repoVars, sessVars, resumeVars, msgVars, sumVars, promptVars, ignoreVars, startVars, hookVars, attrVars>>
exceptRepo == <<nameVars, sessVars, resumeVars, msgVars, sumVars, promptVars, ignoreVars, startVars, hookVars, attrVars>>
exceptSess == <<nameVars, repoVars, resumeVars, msgVars, sumVars, promptVars, ignoreVars, startVars, hookVars, attrVars>>
exceptResume == <<nameVars, repoVars, sessVars, msgVars, sumVars, promptVars, ignoreVars, startVars, hookVars, attrVars>>
exceptMsg == <<nameVars, repoVars, sessVars, resumeVars, sumVars, promptVars, ignoreVars, startVars, hookVars, attrVars>>
exceptSum == <<nameVars, repoVars, sessVars, resumeVars, msgVars, promptVars, ignoreVars, startVars, hookVars, attrVars>>
exceptPrompt == <<nameVars, repoVars, sessVars, resumeVars, msgVars, sumVars, ignoreVars, startVars, hookVars, attrVars>>
exceptIgnore == <<nameVars, repoVars, sessVars, resumeVars, msgVars, sumVars, promptVars, startVars, hookVars, attrVars>>
exceptStart == <<nameVars, repoVars, sessVars, resumeVars, msgVars, sumVars, promptVars, ignoreVars, hookVars, attrVars>>
exceptHook == <<nameVars, repoVars, sessVars, resumeVars, msgVars, sumVars, promptVars, ignoreVars, startVars, attrVars>>
exceptAttr == <<nameVars, repoVars, sessVars, resumeVars, msgVars, sumVars, promptVars, ignoreVars, startVars, hookVars>>

(***************************************************************************)
(* Part 1.  Shadow branch names                                            *)
(***************************************************************************)

Digits == {"0", "1", "2", "3", "4", "5", "6", "7", "8", "9"}
LowerHex == {"a", "b", "c", "d", "e", "f"}
UpperHex == {"A", "B", "C", "D", "E", "F"}

\* The character class [0-9a-fA-F] of shadowBranchPattern.
HexClass == Digits \cup LowerHex \cup UpperHex

\* The literal "entire/" the pattern starts with.
EntirePrefix == <<"e", "n", "t", "i", "r", "e", "/">>

\* The literal "entire/sessions" that IsShadowBranch excludes.
SessionsBranch == EntirePrefix \o <<"s", "e", "s", "s", "i", "o", "n", "s">>

\* The lower repetition count of {7,}.
ShadowMinHex == 7

Lit(c) == [kind |-> "lit", ch |-> c, set |-> {}, min |-> 1]
AtLeast(n, S) == [kind |-> "rep", ch |-> "", set |-> S, min |-> n]

\* ^entire/[0-9a-fA-F]{7,}$ as its sequence of elements between the two
\* anchors: seven literals, then one open-ended repetition of the class.
shadowBranchPattern ==
    [i \in 1..Len(EntirePrefix) |-> Lit(EntirePrefix[i])]
        \o <<AtLeast(ShadowMinHex, HexClass)>>

\* regexp.MatchString for a pattern anchored by ^ and $ (in Go, $ without the
\* m flag is the end of the text): elements k.. of pat match s from position j
\* up to the end of s, `count` characters being already taken by a repetition.
RECURSIVE MatchFrom(_, _, _, _, _)
MatchFrom(pat, k, s, j, count) ==
    IF k > Len(pat) THEN j = Len(s) + 1
    ELSE LET e == pat[k] IN
         IF e.kind = "lit"
         THEN j <= Len(s) /\ s[j] = e.ch /\ MatchFrom(pat, k + 1, s, j + 1, 0)
         ELSE \/ count >= e.min /\ MatchFrom(pat, k + 1, s, j, 0)
              \/ j <= Len(s) /\ s[j] \in e.set /\ MatchFrom(pat, k, s, j + 1, count + 1)

MatchString(pat, s) == MatchFrom(pat, 1, s, 1, 0)

\* A plausible slip: the exclusion of entire/sessions forgotten and the class
\* widened to any letter or digit.
AnyWord == HexClass \cup {"g", "h", "i", "j", "k", "l", "m", "n", "o", "s"}
IsShadowBranchLoose(name) ==
    MatchString([i \in 1..Len(EntirePrefix) |-> Lit(EntirePrefix[i])]
                    \o <<AtLeast(ShadowMinHex, AnyWord)>>, name)

\* A plausible slip: the repetition closed at 40, {7,40}.
IsShadowBranchCapped(name) ==
    /\ name # SessionsBranch
    /\ MatchString(shadowBranchPattern, name)
    /\ Len(name) <= Len(EntirePrefix) + 40

IsShadowBranch(name) ==
    IF name = SessionsBranch THEN FALSE
    ELSE MatchString(shadowBranchPattern, name)

(***************************************************************************)
(* The names IsShadowBranch is applied to.  A name is a prefix, a run of   *)
(* one hex character, a short middle part over MidAlphabet (hex and non-   *)
(* hex characters in every order) and a second short hex run; the literal  *)
(* names of TestIsShadowBranch are added as they are written there.        *)
(***************************************************************************)
MaxRun == 41        \* longest first hex run (41 is one more than a full hash)
MaxMidLen == 2      \* longest middle part
MaxTailRun == 7     \* longest second hex run

Run(c, n) == [i \in 1..n |-> c]

RunChars == {"0", "c", "E"}
MidAlphabet == {"a", "F", "7", "g"}
Mids == UNION {[1..n -> MidAlphabet] : n \in 0..MaxMidLen}

Prefixes ==
    { <<>>,
      EntirePrefix,
      <<"e", "n", "t", "i", "r", "e">>,
      <<"x">> \o EntirePrefix,
      <<"f", "e", "a", "t", "u", "r", "e", "/">> }

\* The names TestIsShadowBranch expects to be accepted.
AcceptedTestNames ==
    { EntirePrefix \o <<"a", "b", "c", "1", "2", "3", "4">>,
      EntirePrefix \o <<"1", "2", "3", "4", "5", "6", "7">>,
      EntirePrefix \o <<"a", "b", "c", "d", "e", "f", "0", "1", "2", "3",
                        "4", "5", "6", "7", "8", "9", "a", "b", "c", "d",
                        "e", "f", "0", "1", "2", "3", "4", "5", "6", "7",
                        "8", "9", "a", "b", "c", "d", "e", "f", "0", "1">>,
      EntirePrefix \o <<"A", "b", "C", "d", "E", "f", "1">> }

\* The names TestIsShadowBranch expects to be rejected.
RejectedTestNames ==
    { EntirePrefix,
      EntirePrefix \o <<"a", "b", "c", "1", "2", "3">>,
      EntirePrefix \o <<"a">>,
      EntirePrefix \o <<"g", "h", "i", "j", "k", "l", "m">>,
      SessionsBranch,
      <<"a", "b", "c", "1", "2", "3", "4">>,
      <<"f", "e", "a", "t", "u", "r", "e", "/", "a", "b", "c", "1", "2", "3", "4">>,
      <<"m", "a", "i", "n">>,
      <<"m", "a", "s", "t", "e", "r">>,
      <<>>,
      <<"e", "n", "t", "i", "r", "e">> }

TestNames == AcceptedTestNames \cup RejectedTestNames

NameInputs ==
    TestNames \cup
    { p \o Run(c, n) \o m \o Run(c, k) :
        p \in Prefixes, c \in RunChars, n \in 0..MaxRun,
        m \in Mids, k \in {0, MaxTailRun} }

NameInit ==
    /\ branchName \in NameInputs
    /\ verdict = "unset"

\* One call of IsShadowBranch on the chosen name.
CallIsShadowBranch ==
    /\ verdict = "unset"
    /\ verdict' = IF IsShadowBranch(branchName) THEN "true" ELSE "false"
    /\ UNCHANGED <<branchName, exceptName>>

(***************************************************************************)
(* Part 2.  The shadow-branch janitor                                      *)
(***************************************************************************)

\* A Go slice: nil, or a (possibly empty) sequence of elements.
NilSlice == [isNil |-> TRUE, elems |-> <<>>]
EmptySlice == [isNil |-> FALSE, elems |-> <<>>]
SliceAppend(s, x) == [isNil |-> FALSE, elems |-> Append(s.elems, x)]
SliceLen(s) == Len(s.elems)

HasPrefix(s, p) == Len(s) >= Len(p) /\ SubSeq(s, 1, Len(p)) = p
TrimPrefix(s, p) == IF HasPrefix(s, p) THEN SubSeq(s, Len(p) + 1, Len(s)) ELSE s

RefsHeads == <<"r", "e", "f", "s", "/", "h", "e", "a", "d", "s", "/">>
RefsTags == <<"r", "e", "f", "s", "/", "t", "a", "g", "s", "/">>
RefsRemotes == <<"r", "e", "f", "s", "/", "r", "e", "m", "o", "t", "e", "s", "/">>
Range(s) == {s[i] : i \in DOMAIN s}

\* plumbing.NewBranchReferenceName and ReferenceName.IsBranch
NewBranchReferenceName(branch) == RefsHeads \o branch
IsBranch(refName) == HasPrefix(refName, RefsHeads)

\* The branch names of the janitor's tests and of the spec's examples.
BrAbc == EntirePrefix \o <<"a", "b", "c", "1", "2", "3", "4">>
BrDef == EntirePrefix \o <<"d", "e", "f", "5", "6", "7", "8">>
BrMissing == EntirePrefix \o <<"d", "o", "e", "s", "n", "o", "t", "e", "x", "i", "s", "t">>
BrMaster == <<"m", "a", "s", "t", "e", "r">>
BrFeature == <<"f", "e", "a", "t", "u", "r", "e", "/", "f", "o", "o">>
Origin == <<"o", "r", "i", "g", "i", "n", "/">>

\* Every reference a repository of the model may hold.  All are hash
\* references, as the program and its tests create them (NewHashReference).
RefUniverse ==
    { [name |-> RefsHeads \o BrMaster, hash |-> "c0"],
      [name |-> RefsHeads \o BrFeature, hash |-> "c1"],
      [name |-> RefsHeads \o SessionsBranch, hash |-> "c2"],
      [name |-> RefsHeads \o BrAbc, hash |-> "c0"],
      [name |-> RefsHeads \o BrDef, hash |-> "c1"],
      [name |-> RefsTags \o BrAbc, hash |-> "c0"],
      [name |-> RefsRemotes \o Origin \o BrDef, hash |-> "c1"] }

MaxRefs == 5        \* most references a repository holds at once
MaxDeleteLen == 2   \* longest argument of a direct DeleteShadowBranches call

\* The orders in which refs.ForEach may visit a set of references.
RECURSIVE Orders(_)
Orders(S) ==
    IF S = {} THEN {<<>>}
    ELSE UNION {{<<r>> \o rest : rest \in Orders(S \ {r})} : r \in S}

\* A plausible slip: every branch under entire/ is taken for a shadow branch.
RECURSIVE ForEachRefAnyEntire(_, _, _)
ForEachRefAnyEntire(order, i, shadowBranches) ==
    IF i > Len(order) THEN shadowBranches
    ELSE LET name == TrimPrefix(order[i].name, RefsHeads)
         IN  IF IsBranch(order[i].name) /\ HasPrefix(name, EntirePrefix)
             THEN ForEachRefAnyEntire(order, i + 1, SliceAppend(shadowBranches, name))
             ELSE ForEachRefAnyEntire(order, i + 1, shadowBranches)

\* The callback of refs.ForEach applied to the references in visiting order.
RECURSIVE ForEachRef(_, _, _)
ForEachRef(order, i, shadowBranches) ==
    IF i > Len(order) THEN shadowBranches
    ELSE LET ref == order[i]
             name == TrimPrefix(ref.name, RefsHeads)
         IN  IF ~IsBranch(ref.name) THEN ForEachRef(order, i + 1, shadowBranches)
             ELSE IF IsShadowBranch(name)
                  THEN ForEachRef(order, i + 1, SliceAppend(shadowBranches, name))
                  ELSE ForEachRef(order, i + 1, shadowBranches)

\* What may go wrong in ListShadowBranches: OpenRepository, repo.References
\* or the iteration itself returns an error.
ListFaults == {"none", "open", "references", "iterate"}
ListError(fault) ==
    IF fault = "open" THEN "failed to open git repository"
    ELSE IF fault = "references" THEN "failed to get references"
    ELSE "failed to iterate references"

\* A plausible slip: the final nil check of ListShadowBranches left out.
ListShadowBranchesNoNilCheck(order, fault) ==
    IF fault # "none"
    THEN [branches |-> NilSlice, err |-> ListError(fault)]
    ELSE [branches |-> ForEachRef(order, 1, NilSlice), err |-> ""]

\* ListShadowBranches over the references visited in `order`.
ListShadowBranches(order, fault) ==
    IF fault # "none"
    THEN [branches |-> NilSlice, err |-> ListError(fault)]
    ELSE LET found == ForEachRef(order, 1, NilSlice)
         IN  [branches |-> IF found.isNil THEN EmptySlice ELSE found, err |-> ""]

\* A plausible slip: the loop stops at the first branch that fails.
RECURSIVE DeleteLoopAbort(_, _, _, _, _, _)
DeleteLoopAbort(R, branches, i, deleted, failed, failing) ==
    IF i > Len(branches)
    THEN [refs |-> R, deleted |-> deleted, failed |-> failed, err |-> ""]
    ELSE LET found == {r \in R : r.name = NewBranchReferenceName(branches[i])}
         IN  IF found = {} \/ i \in failing
             THEN [refs |-> R, deleted |-> deleted,
                   failed |-> SliceAppend(failed, branches[i]), err |-> ""]
             ELSE DeleteLoopAbort(R \ found, branches, i + 1,
                                  SliceAppend(deleted, branches[i]), failed, failing)

\* The loop of DeleteShadowBranches from element i on.  R is the reference
\* store, failing the positions at which Storer.RemoveReference returns an
\* error (the reference then stays).
RECURSIVE DeleteLoop(_, _, _, _, _, _)
DeleteLoop(R, branches, i, deleted, failed, failing) ==
    IF i > Len(branches)
    THEN [refs |-> R, deleted |-> deleted, failed |-> failed, err |-> ""]
    ELSE LET branch == branches[i]
             refName == NewBranchReferenceName(branch)
             found == {r \in R : r.name = refName}
         IN  IF found = {}
             THEN DeleteLoop(R, branches, i + 1, deleted,
                             SliceAppend(failed, branch), failing)
             ELSE IF i \in failing
             THEN DeleteLoop(R, branches, i + 1, deleted,
                             SliceAppend(failed, branch), failing)
             ELSE DeleteLoop(R \ found, branches, i + 1,
                             SliceAppend(deleted, branch), failed, failing)

\* DeleteShadowBranches(branches): deleted and failed are named results and
\* start as nil slices; openOK is whether OpenRepository succeeds.
DeleteShadowBranches(R, branches, openOK, failing) ==
    IF Len(branches) = 0
    THEN [refs |-> R, deleted |-> EmptySlice, failed |-> EmptySlice, err |-> ""]
    ELSE IF ~openOK
    THEN [refs |-> R, deleted |-> NilSlice, failed |-> NilSlice,
          err |-> "failed to open git repository"]
    ELSE DeleteLoop(R, branches, 1, NilSlice, NilSlice, failing)

\* What fmt.Fprintf and fmt.Fprintln write: one record per line.
Line(kind, n, name) == [kind |-> kind, n |-> n, name |-> name]
RECURSIVE BranchLines(_, _)
BranchLines(names, i) ==
    IF i > Len(names) THEN <<>>
    ELSE <<Line("branch", 0, names[i])>> \o BranchLines(names, i + 1)

\* A plausible slip: the preview deletes as well.
runCleanWithBranchesEager(R, force, branches, openOK, failing) ==
    LET d == DeleteShadowBranches(R, branches.elems, openOK, failing)
    IN  [refs |-> d.refs, out |-> BranchLines(branches.elems, 1), err |-> ""]

\* A plausible slip: the failed branches are printed but success is returned.
CleanReportSwallow(d) ==
    [refs |-> d.refs,
     out |-> (IF SliceLen(d.deleted) > 0
              THEN <<Line("Deleted shadow branches:", SliceLen(d.deleted), <<>>)>>
                       \o BranchLines(d.deleted.elems, 1)
              ELSE <<>>)
             \o (IF SliceLen(d.failed) > 0
                 THEN <<Line("Failed to delete branches:", SliceLen(d.failed), <<>>)>>
                          \o BranchLines(d.failed.elems, 1)
                 ELSE <<>>),
     err |-> ""]

\* The report of the force branch of runCleanWithBranches, given what
\* DeleteShadowBranches returned.
CleanReport(d) ==
    IF d.err # ""
    THEN [refs |-> d.refs, out |-> <<>>, err |-> "failed to delete shadow branches"]
    ELSE [refs |-> d.refs,
          out |-> (IF SliceLen(d.deleted) > 0
                   THEN <<Line("Deleted shadow branches:", SliceLen(d.deleted), <<>>)>>
                            \o BranchLines(d.deleted.elems, 1)
                   ELSE <<>>)
                  \o (IF SliceLen(d.failed) > 0
                      THEN <<Line("Failed to delete branches:", SliceLen(d.failed), <<>>)>>
                               \o BranchLines(d.failed.elems, 1)
                      ELSE <<>>),
          err |-> IF SliceLen(d.failed) > 0 THEN "failed to delete branches" ELSE ""]

\* runCleanWithBranches(w, force, branches): the lines written to w, the
\* error returned and the reference store afterwards.
runCleanWithBranches(R, force, branches, openOK, failing) ==
    IF SliceLen(branches) = 0
    THEN [refs |-> R, out |-> <<Line("No shadow branches to clean up.", 0, <<>>)>>,
          err |-> ""]
    ELSE IF ~force
    THEN [refs |-> R,
          out |-> <<Line("shadow branches found:", SliceLen(branches), <<>>)>>
                    \o BranchLines(branches.elems, 1)
                    \o <<Line("", 0, <<>>),
                         Line("Run with --force to delete these branches.", 0, <<>>)>>,
          err |-> ""]
    ELSE CleanReport(DeleteShadowBranches(R, branches.elems, openOK, failing))

\* runClean(w, force), given what ListShadowBranches returned.
CleanListed(R, force, l, openOK, failing) ==
    IF l.err # ""
    THEN [refs |-> R, listed |-> l.branches, out |-> <<>>,
          err |-> "failed to list shadow branches"]
    ELSE [listed |-> l.branches]
             @@ runCleanWithBranches(R, force, l.branches, openOK, failing)

\* runClean(w, force): ListShadowBranches, then runCleanWithBranches.
runClean(R, force, order, fault, openOK, failing) ==
    CleanListed(R, force, ListShadowBranches(order, fault), openOK, failing)

NoCall ==
    [op |-> "none", force |-> FALSE, input |-> <<>>, before |-> {},
     listed |-> NilSlice, deleted |-> NilSlice, failed |-> NilSlice,
     out |-> <<>>, err |-> ""]

DeleteNames == {BrAbc, BrDef, BrMissing}
DeleteInputs == UNION {[1..n -> DeleteNames] : n \in 0..MaxDeleteLen}

RepoInit ==
    /\ refs \in {R \in SUBSET RefUniverse : Cardinality(R) <= MaxRefs}
    /\ call = NoCall

\* A caller runs ListShadowBranches.
CallListShadowBranches ==
    /\ call.op = "none"
    /\ \E order \in Orders(refs), fault \in ListFaults :
         LET l == ListShadowBranches(order, fault)
         IN  call' = [NoCall EXCEPT !.op = "list", !.before = refs,
                                    !.listed = l.branches, !.err = l.err]
    /\ UNCHANGED <<refs, exceptRepo>>

\* A caller runs DeleteShadowBranches on any sequence of names.
CallDeleteShadowBranches ==
    /\ call.op = "none"
    /\ \E branches \in DeleteInputs, openOK \in BOOLEAN :
         \E failing \in SUBSET (1..Len(branches)) :
           \E d \in {DeleteShadowBranches(refs, branches, openOK, failing)} :
               /\ refs' = d.refs
               /\ call' = [NoCall EXCEPT !.op = "delete", !.input = branches,
                                         !.before = refs, !.deleted = d.deleted,
                                         !.failed = d.failed, !.err = d.err]
    /\ UNCHANGED exceptRepo

\* The user runs "entire clean" (force = FALSE) or "entire clean --force".
CallRunClean ==
    /\ call.op = "none"
    /\ \E force \in BOOLEAN, order \in Orders(refs), fault \in ListFaults,
          openOK \in BOOLEAN :
         \E failing \in SUBSET (1..SliceLen(ListShadowBranches(order, fault).branches)) :
           \E c \in {runClean(refs, force, order, fault, openOK, failing)} :
               /\ refs' = c.refs
               /\ call' = [NoCall EXCEPT !.op = "clean", !.force = force,
                                         !.before = refs, !.listed = c.listed,
                                         !.out = c.out, !.err = c.err]
    /\ UNCHANGED exceptRepo

\* The call has returned; the next one starts from the store it left.
Return ==
    /\ call.op # "none"
    /\ call' = NoCall
    /\ UNCHANGED <<refs, exceptRepo>>

(***************************************************************************)
(* Part 3.  Sessions and the per-base shadow branch                        *)
(*                                                                         *)
(* The model follows the shadow branch entire/<short-hash> of one base     *)
(* commit.  Each CLI invocation is a hook of one session on that base: a   *)
(* prompt submission (which reserves the branch) or an agent stop (which   *)
(* writes a snapshot).  It takes entire-sessions/.lock, reads the branch,  *)
(* decides and writes, and releases the lock.                              *)
(***************************************************************************)
Sessions == {"2025-01-01-alpha", "2025-01-01-beta"}
NoTrailer == "none"
Free == 0

NumInvocations == 2   \* CLI invocations that may run at the same time
MaxCommits == 3       \* most commits on one shadow branch

Procs == 1..NumInvocations

\* A shadow-branch commit, reduced to its Entire-Session trailer.
Commit(session) == [session |-> session]

\* createOrphanedShadowBranch and createShadowBranchWithoutTrailer: a branch of
\* one commit made outside any session.
OrphanedShadowBranch(session) == <<Commit(session)>>
ShadowBranchWithoutTrailer == <<Commit(NoTrailer)>>

\* A branch is the sequence of its commits, oldest first; <<>> is no branch.
TipOf(branch) == branch[Len(branch)]

Idle == [pc |-> "idle", op |-> "none", sess |-> "none", seen |-> <<>>,
         result |-> "none"]

\* A plausible slip: the lock is not honoured.
CanAcquireAlways(holder) == TRUE

\* The advisory lock can be taken when nobody holds it.
CanAcquire(holder) == holder = Free

\* A plausible slip: a conflict is raised only while the other session still
\* has its state file.
ConflictsIfStateFile(tip, session) ==
    tip.session # NoTrailer /\ tip.session # session /\ tip.session \in stateFiles

\* A plausible slip: any existing branch conflicts, also the session's own.
ConflictsWithAny(tip, session) == tip.session # NoTrailer

\* A plausible slip: a tip without trailer counts as another session's.
ConflictsWithLegacy(tip, session) == tip.session # session

\* The tip's Entire-Session trailer names a different session.
Conflicts(tip, session) == tip.session # NoTrailer /\ tip.session # session

\* reserve(base, session) on the branch as read under the lock.
Reserve(seen, session) ==
    IF seen = <<>>
    THEN [result |-> "ok", write |-> TRUE, branch |-> <<Commit(session)>>]
    ELSE IF Conflicts(TipOf(seen), session)
    THEN [result |-> "SessionIdConflict", write |-> FALSE, branch |-> seen]
    ELSE [result |-> "ok", write |-> FALSE, branch |-> seen]

\* write_snapshot(branch, snapshot) on the branch as read under the lock.
WriteSnapshot(seen, session) ==
    IF seen = <<>>
    THEN [result |-> "RefNotFound", write |-> FALSE, branch |-> seen]
    ELSE IF Conflicts(TipOf(seen), session)
    THEN [result |-> "SessionIdConflict", write |-> FALSE, branch |-> seen]
    ELSE [result |-> "ok", write |-> TRUE, branch |-> Append(seen, Commit(session))]

SessInit ==
    /\ shadow \in {<<>>, ShadowBranchWithoutTrailer}
                    \cup {OrphanedShadowBranch(s) : s \in Sessions}
    /\ stateFiles = {}
    /\ lock = Free
    /\ inv = [p \in Procs |-> Idle]

\* A hook starts: UserPromptSubmit ("prompt") or Stop ("stop").
Start(p) ==
    /\ inv[p].pc = "idle"
    /\ \E op \in {"prompt", "stop"}, s \in Sessions :
         inv' = [inv EXCEPT ![p] = [Idle EXCEPT !.pc = "waiting", !.op = op,
                                                !.sess = s]]
    /\ UNCHANGED <<shadow, stateFiles, lock, exceptSess>>

Acquire(p) ==
    /\ inv[p].pc = "waiting"
    /\ CanAcquire(lock)
    /\ lock' = p
    /\ inv' = [inv EXCEPT ![p].pc = "locked"]
    /\ UNCHANGED <<shadow, stateFiles, exceptSess>>

\* The invocation resolves the shadow branch of its base.
ReadBranch(p) ==
    /\ inv[p].pc = "locked"
    /\ inv' = [inv EXCEPT ![p].pc = "read", ![p].seen = shadow]
    /\ UNCHANGED <<shadow, stateFiles, lock, exceptSess>>

\* The invocation decides on what it read, updates the reference and the
\* session state file, and releases the lock.
Decide(p) ==
    /\ inv[p].pc = "read"
    /\ LET me == inv[p]
           d == IF me.op = "prompt" THEN Reserve(me.seen, me.sess)
                ELSE WriteSnapshot(me.seen, me.sess)
       IN  /\ d.write => Len(d.branch) <= MaxCommits
           /\ shadow' = IF d.write THEN d.branch ELSE shadow
           /\ stateFiles' = IF d.result = "ok" THEN stateFiles \cup {me.sess}
                            ELSE stateFiles
           /\ inv' = [inv EXCEPT ![p].pc = "done", ![p].seen = <<>>,
                                  ![p].result = d.result]
    /\ lock' = IF lock = p THEN Free ELSE lock
    /\ UNCHANGED exceptSess

\* The process exits.
Finish(p) ==
    /\ inv[p].pc = "done"
    /\ inv' = [inv EXCEPT ![p] = Idle]
    /\ UNCHANGED <<shadow, stateFiles, lock, exceptSess>>

\* The session state files under entire-sessions/ are removed by hand.
DeleteStateFiles ==
    /\ stateFiles # {}
    /\ stateFiles' = {}
    /\ UNCHANGED <<shadow, lock, inv, exceptSess>>

(***************************************************************************)
(* Part 4.  entire resume <branch>                                         *)
(*                                                                         *)
(* resumeRepo is what the command works on: the current branch, whether    *)
(* the worktree has uncommitted changes, the local branches and those on   *)
(* origin, the Entire-Checkpoint trailer of every branch tip, the shards   *)
(* of the local and of the remote metadata branch, and the vendor session  *)
(* log files.  A run is a record of the repository it leaves, the lines it *)
(* wrote to stderr, the git and file operations it performed, and the      *)
(* error it returned ("" is nil).                                          *)
(***************************************************************************)
Master == "master"
FeatureLocal == "feature/test-branch"
FeatureOther == "feature/target"
ResumeBranches == {Master, FeatureLocal, FeatureOther}

NoCheckpoint == "no trailer"
CheckpointID == "a1b2c3d4e5f6"
Trailers == {NoCheckpoint, CheckpointID}

NoBranch == [exists |-> FALSE, shards |-> {}]
MetadataBranches == {NoBranch} \cup {[exists |-> TRUE, shards |-> s] : s \in SUBSET {CheckpointID}}

\* A session id is YYYY-MM-DD-<agent-session-token>.
EntireSessionID == [date |-> "2025-01-01", token |-> "alpha"]
ExtractAgentSessionID(sessionID) == sessionID.token
FormatResumeCommand(agentSessionID) == <<"claude", "-r", agentSessionID>>

\* The committed record of a checkpoint and the transcript stored with it.
CheckpointMetadata(checkpointID) == [SessionID |-> EntireSessionID]
\* A session log file: absent, or a file with its content.
SessionLogOf(checkpointID) == [isFile |-> TRUE, data |-> <<"transcript of", checkpointID>>]
Absent == [isFile |-> FALSE, data |-> <<>>]
ExistingLog == [isFile |-> TRUE, data |-> <<"{\"existing\": true}">>]

\* The one call that returns an error in a run, if any.
ResumeFaults ==
    {"none", "currentBranch", "existsLocally", "existsOnRemote", "prompt",
     "hasChanges", "checkout", "fetch", "open", "head", "commit", "agent",
     "getwd", "sessionDir", "noMetadata", "sessionLog", "mkdir", "writeSession"}

Begin(w) == [w |-> w, out |-> <<>>, ops |-> <<>>, err |-> ""]
Say(r, kind, arg) == [r EXCEPT !.out = Append(@, [kind |-> kind, arg |-> arg])]
Did(r, op) == [r EXCEPT !.ops = Append(@, op)]
Fail(r, msg) == [r EXCEPT !.err = msg]

\* git helpers of package cli, by their results.
BranchExistsLocally(w, branch) == branch \in w.local
\* A plausible slip: the remote is never found to hold the branch.
BranchExistsOnRemoteNever(w, branch) == FALSE
BranchExistsOnRemote(w, branch) == branch \in w.remote

\* A plausible slip: the worktree is never found dirty.
HasUncommittedChangesNever(w) == FALSE

HasUncommittedChanges(w) == w.dirty

CheckoutBranch(r, branch) ==
    Did([r EXCEPT !.w.head = branch], "checkout")

FetchAndCheckoutRemoteBranch(r, branch) ==
    Did(Did([r EXCEPT !.w.local = @ \cup {branch}, !.w.head = branch],
            "fetch"), "checkout")

\* A plausible slip: an existing session log is not looked for.
fileExistsNever(w, agentSessionID) == FALSE

fileExists(w, agentSessionID) == w.logs[agentSessionID] # Absent

\* resumeSession(sessionID, checkpointID)
resumeSession(r, sessionID, checkpointID, fault) ==
    IF fault = "agent" THEN Fail(r, "no agent available")
    ELSE IF fault = "getwd" THEN Fail(r, "failed to get current directory")
    ELSE IF fault = "sessionDir" THEN Fail(r, "failed to determine session directory")
    ELSE
    LET agentSessionID == ExtractAgentSessionID(sessionID)
        howToContinue(x) ==
            Say(Say(x, "To continue this session, run:", ""),
                "command", FormatResumeCommand(agentSessionID))
    IN  IF fileExists(r.w, agentSessionID)
        THEN howToContinue(Say(r, "Session:", sessionID))
        ELSE IF fault = "noMetadata"
        THEN howToContinue(Say(r, "found in commit trailer but session log not available",
                               sessionID))
        ELSE IF fault = "sessionLog" THEN Fail(r, "failed to get session log")
        ELSE IF fault = "mkdir" THEN Fail(r, "failed to create session directory")
        ELSE IF fault = "writeSession" THEN Fail(r, "failed to write session")
        ELSE howToContinue(
               Say(Say(Did([r EXCEPT !.w.logs[agentSessionID] = SessionLogOf(checkpointID)],
                           "writeSession"),
                       "Session restored to:", agentSessionID),
                   "Session:", sessionID))

\* A plausible slip: missing metadata is a fatal error.
checkRemoteMetadataFatal(r, checkpointID) ==
    Fail(r, "session metadata not available")

\* A plausible slip: the record found on origin is used to restore the session.
checkRemoteMetadataRestores(r, checkpointID) ==
    IF r.w.remoteMeta.exists /\ checkpointID \in r.w.remoteMeta.shards
    THEN resumeSession(r, CheckpointMetadata(checkpointID).SessionID, checkpointID, "none")
    ELSE Say(r, "found in commit but session metadata not available", checkpointID)

\* checkRemoteMetadata(repo, checkpointID)
checkRemoteMetadata(r, checkpointID) ==
    IF ~r.w.remoteMeta.exists
    THEN Say(Say(r, "found in commit but session metadata not available", checkpointID),
             "The entire/sessions branch may not exist locally or on the remote.", "")
    ELSE IF checkpointID \notin r.w.remoteMeta.shards
    THEN Say(r, "found in commit but session metadata not available", checkpointID)
    ELSE Say(Say(Say(Say(r,
             "found in commit but session metadata not available locally", checkpointID),
             "The metadata exists on origin. To fetch it, run:", ""),
             "command", <<"git", "fetch", "origin", "entire/sessions:entire/sessions">>),
             "Then run this command again.", "")

\* A plausible slip: a tip without trailer is a fatal error.
NoCheckpointFoundFatal(r, branch) ==
    Fail(r, "no Entire checkpoint found")

\* What resumeFromCurrentBranch does when the tip has no trailer.
NoCheckpointFound(r, branch) ==
    Say(Say(r, "No Entire checkpoint found for the last commit on branch", branch),
        "Commit:", r.w.head)

\* resumeFromCurrentBranch(branch)
resumeFromCurrentBranch(r0, branch, fault) ==
    IF fault = "open" THEN Fail(r0, "not a git repository")
    ELSE IF fault = "head" THEN Fail(r0, "failed to get HEAD")
    ELSE IF fault = "commit" THEN Fail(r0, "failed to get commit")
    ELSE
    LET r == Did(r0, "readTrailer")
        checkpointID == r.w.tips[r.w.head]
    IN  IF checkpointID = NoCheckpoint THEN NoCheckpointFound(r, branch)
        ELSE IF ~r.w.localMeta.exists THEN checkRemoteMetadata(r, checkpointID)
        ELSE IF checkpointID \notin r.w.localMeta.shards
        THEN checkRemoteMetadata(r, checkpointID)
        ELSE resumeSession(r, CheckpointMetadata(checkpointID).SessionID,
                           checkpointID, fault)

\* runResume(branchName), branch being its argument; confirm is the user's answer to "Fetch from origin?".
runResume(w, branch, confirm, fault) ==
    LET r == Begin(w) IN
    IF fault # "currentBranch" /\ w.head = branch
    THEN resumeFromCurrentBranch(r, branch, fault)
    ELSE IF fault = "existsLocally" THEN Fail(r, "failed to check branch")
    ELSE IF ~BranchExistsLocally(w, branch)
    THEN IF fault = "existsOnRemote" THEN Fail(r, "failed to check remote branch")
         ELSE IF ~BranchExistsOnRemote(w, branch)
         THEN Fail(r, "branch not found locally or on origin")
         ELSE IF fault = "prompt" THEN Fail(r, "failed to get confirmation")
         ELSE IF ~confirm THEN r
         ELSE IF fault = "fetch"
         THEN Fail(Say(r, "Fetching branch from origin...", branch), "fetch failed")
         ELSE resumeFromCurrentBranch(
                  Say(FetchAndCheckoutRemoteBranch(
                          Say(r, "Fetching branch from origin...", branch), branch),
                      "Switched to branch", branch),
                  branch, fault)
    ELSE IF fault = "hasChanges" THEN Fail(r, "failed to check for uncommitted changes")
    ELSE IF HasUncommittedChanges(w)
    THEN Fail(r, "you have uncommitted changes. Please commit or stash them first")
    ELSE IF fault = "checkout" THEN Fail(r, "checkout failed")
    ELSE resumeFromCurrentBranch(
             Say(CheckoutBranch(r, branch), "Switched to branch", branch),
             branch, fault)

NoResumeCall ==
    [op |-> "none", branch |-> "", confirm |-> FALSE, fault |-> "none",
     before |-> <<>>, out |-> <<>>, ops |-> <<>>, err |-> ""]

ResumeInit ==
    /\ resumeRepo \in
         { [head |-> h, dirty |-> d, local |-> l, remote |-> o, tips |-> t,
            localMeta |-> lm, remoteMeta |-> rm,
            logs |-> [a \in {EntireSessionID.token} |-> lg]] :
             h \in ResumeBranches, d \in BOOLEAN,
             l \in {x \in SUBSET ResumeBranches : Master \in x},
             o \in SUBSET (ResumeBranches \ {Master}),
             t \in {f \in [ResumeBranches -> Trailers] : f[Master] = NoCheckpoint},
             lm \in MetadataBranches, rm \in MetadataBranches,
             lg \in {Absent, ExistingLog} }
    /\ resumeRepo.head \in resumeRepo.local
    /\ resumeCall = NoResumeCall

\* The user runs "entire resume <branch>".
CallRunResume ==
    /\ resumeCall.op = "none"
    /\ \E branch \in ResumeBranches, confirm \in BOOLEAN, fault \in ResumeFaults :
         \E r \in {runResume(resumeRepo, branch, confirm, fault)} :
             /\ resumeRepo' = r.w
             /\ resumeCall' = [op |-> "resume", branch |-> branch,
                               confirm |-> confirm, fault |-> fault,
                               before |-> resumeRepo, out |-> r.out,
                               ops |-> r.ops, err |-> r.err]
    /\ UNCHANGED exceptResume

\* The process has exited; the next run starts from the repository it left.
ReturnResume ==
    /\ resumeCall.op # "none"
    /\ resumeCall' = NoResumeCall
    /\ UNCHANGED <<resumeRepo, exceptResume>>

(***************************************************************************)
(* Part 5.  The commit message of CreateSquashedBranch                     *)
(*                                                                         *)
(* A trailer map is a Go map: nil or a set of entries; ranging over it     *)
(* yields the keys in an order of the runtime's choosing.                  *)
(***************************************************************************)

\* The characters of the trailer keys in ascending byte order, which is the
\* order Go compares strings in.
ByteOrder == <<"-", "A", "B", "E", "G", "M", "R", "S", "T", "Z", "a", "b", "c", "d", "e", "g", "h", "i", "l", "n", "o", "p", "r", "s", "t", "u", "y">>
Code(c) == CHOOSE i \in DOMAIN ByteOrder : ByteOrder[i] = c

\* a < b for Go strings.
RECURSIVE StringLess(_, _)
StringLess(a, b) ==
    IF b = <<>> THEN FALSE
    ELSE IF a = <<>> THEN TRUE
    ELSE IF Head(a) = Head(b) THEN StringLess(Tail(a), Tail(b))
    ELSE Code(Head(a)) < Code(Head(b))

\* A plausible slip: the keys are written in map iteration order.
SortStringsNot(keys) == keys

\* sort.Strings(keys)
RECURSIVE InsertSorted(_, _)
InsertSorted(sorted, k) ==
    IF sorted = <<>> THEN <<k>>
    ELSE IF StringLess(k, Head(sorted)) THEN <<k>> \o sorted
    ELSE <<Head(sorted)>> \o InsertSorted(Tail(sorted), k)
RECURSIVE SortFrom(_, _, _)
SortFrom(keys, i, sorted) ==
    IF i > Len(keys) THEN sorted
    ELSE SortFrom(keys, i + 1, InsertSorted(sorted, keys[i]))
SortStrings(keys) == SortFrom(keys, 1, <<>>)

\* The strings.Builder loop: "\n<key>: <value>" for every key in turn.
RECURSIVE WriteTrailers(_, _, _)
WriteTrailers(keys, trailers, i) ==
    IF i > Len(keys) THEN <<>>
    ELSE <<"\n">> \o keys[i] \o <<":", " ">> \o trailers.entries[keys[i]]
             \o WriteTrailers(keys, trailers, i + 1)

NilMap == [isNil |-> TRUE, entries |-> <<>>]
MapLen(m) == Cardinality(DOMAIN m.entries)

\* fullMessage of CreateSquashedBranch; iteration is the order in which
\* "for k := range trailers" yields the keys.
BuildFullMessage(message, trailers, iteration) ==
    IF MapLen(trailers) > 0
    THEN message \o <<"\n">> \o WriteTrailers(SortStrings(iteration), trailers, 1)
    ELSE message

KeyZebra == <<"Z", "e", "b", "r", "a", "-", "T", "r", "a", "i", "l", "e", "r">>
KeyAlpha == <<"A", "l", "p", "h", "a", "-", "T", "r", "a", "i", "l", "e", "r">>
KeyMiddle == <<"M", "i", "d", "d", "l", "e", "-", "T", "r", "a", "i", "l", "e", "r">>
KeyBeta == <<"B", "e", "t", "a", "-", "T", "r", "a", "i", "l", "e", "r">>
KeySession == <<"E", "n", "t", "i", "r", "e", "-", "S", "e", "s", "s", "i", "o", "n">>
KeyStrategy == <<"E", "n", "t", "i", "r", "e", "-", "S", "t", "r", "a", "t", "e", "g", "y">>
KeySourceBranch == <<"E", "n", "t", "i", "r", "e", "-", "S", "o", "u", "r", "c", "e", "-", "B", "r", "a", "n", "c", "h">>
KeySourceRange == <<"E", "n", "t", "i", "r", "e", "-", "S", "o", "u", "r", "c", "e", "-", "R", "a", "n", "g", "e">>
KeyGeneratedBy == <<"G", "e", "n", "e", "r", "a", "t", "e", "d", "-", "B", "y">>
KeyLower == <<"a", "l", "p", "h", "a">>
KeyPrefix == <<"A", "l", "p", "h", "a">>
TrailerKeys ==
    {KeyZebra, KeyAlpha, KeyMiddle, KeyBeta, KeySession, KeyStrategy,
     KeySourceBranch, KeySourceRange, KeyGeneratedBy, KeyLower, KeyPrefix}
TrailerValues == {<<"z">>, <<"e", "n", "t", "i", "r", "e", "-", "c", "l", "i">>}
Messages ==
    {<<"f", "e", "a", "t", ":", " ", "t", "e", "s", "t", " ", "t", "r", "a", "i", "l", "e", "r", " ", "o", "r", "d", "e", "r", "i", "n", "g">>,
     <<"f", "e", "a", "t", ":", " ", "s", "q", "u", "a", "s", "h", "e", "d", " ", "f", "e", "a", "t", "u", "r", "e", " ", "w", "o", "r", "k", "\n">>}

MaxTrailers == 3    \* most entries of a trailer map

TrailerMaps ==
    {NilMap, [isNil |-> FALSE, entries |-> <<>>]} \cup
    UNION {{[isNil |-> FALSE, entries |-> e] : e \in [S -> TrailerValues]} :
             S \in {x \in SUBSET TrailerKeys : Cardinality(x) \in 1..MaxTrailers}}

NoMessage == <<"(not built)">>

MsgInit ==
    /\ msgInput \in
         UNION {{[message |-> m, trailers |-> tr, iteration |-> o] :
                    m \in Messages, o \in Orders(DOMAIN tr.entries)} :
                 tr \in TrailerMaps}
    /\ fullMessage = NoMessage

\* CreateSquashedBranch builds the message of the squashed commit.
CallBuildFullMessage ==
    /\ fullMessage = NoMessage
    /\ fullMessage' = BuildFullMessage(msgInput.message, msgInput.trailers,
                                       msgInput.iteration)
    /\ UNCHANGED <<msgInput, exceptMsg>>

(***************************************************************************)
(* Part 6.  entire summarize                                               *)
(*                                                                         *)
(* A commit is its content: parent commits, tree and message (author and   *)
(* time are left out), so that a reference holds the whole history of its  *)
(* tip.  sumRepo.refs maps a branch name to <<>> (no such branch) or to    *)
(* <<tip>>; HEAD is the symbolic reference to the branch sumRepo.head.     *)
(* Histories are linear: every commit has at most one parent.              *)
(***************************************************************************)
NewCommit(parents, tree, message) == [parents |-> parents, tree |-> tree, message |-> message]

MainBranch == "main"
FeatureBranch == "feature"
SummaryBranch == "entire/pr/feature"
TestBranch == "test-branch"
Nonexistent == "nonexistent"
SumBranchNames == {MainBranch, FeatureBranch, SummaryBranch, TestBranch, Nonexistent}

MaxSourceCommits == 3   \* most commits of the feature branch after its fork point

BaseCommit == NewCommit(<<>>, "base", <<"Initial commit">>)
MainAhead == NewCommit(<<BaseCommit>>, "main 1", <<"main commit">>)
UnrelatedRoot == NewCommit(<<>>, "other", <<"unrelated">>)

\* n commits made on top of commit c, each with a tree of its own.
RECURSIVE FeatureChain(_, _)
FeatureChain(c, n) ==
    IF n = 0 THEN c
    ELSE NewCommit(<<FeatureChain(c, n - 1)>>, "feature " \o ToString(n),
                   <<"feature commit">>)

\* The commits reachable from c, c included.
RECURSIVE History(_)
History(c) == IF c.parents = <<>> THEN {c} ELSE {c} \cup History(c.parents[1])

\* repo.Reference(plumbing.NewBranchReferenceName(name), true)
HasRef(w, name) == w.refs[name] # <<>>
TipOfBranch(w, name) == w.refs[name][1]

\* repo.Head(): the tip of the branch HEAD points to.
HeadCommit(w) == TipOfBranch(w, w.head)

\* The nearest commit of a's history that is also in b's history.
RECURSIVE NearestIn(_, _)
NearestIn(c, S) ==
    IF c \in S THEN <<c>>
    ELSE IF c.parents = <<>> THEN <<>>
    ELSE NearestIn(c.parents[1], S)

\* GetMergeBase(a, b): <<>> stands for its error (a branch that does not
\* resolve, or no common ancestor).
GetMergeBase(w, a, b) ==
    IF ~HasRef(w, a) \/ ~HasRef(w, b) THEN <<>>
    ELSE NearestIn(TipOfBranch(w, a), History(TipOfBranch(w, b)))

\* A plausible slip: the default branch is not recognised.
IsOnDefaultBranchNever(w) == FALSE

\* IsOnDefaultBranch()
IsOnDefaultBranch(w) == w.head \in {"main", "master"}

\* BranchExists(branchName)
BranchExists(w, name) == HasRef(w, name)

\* CountCommitsBetween(from, to): the commits visited from `to` backwards
\* before `from` is met.
RECURSIVE CountCommitsBetween(_, _)
CountCommitsBetween(from, to) ==
    IF to = from THEN 0
    ELSE IF to.parents = <<>> THEN 1
    ELSE 1 + CountCommitsBetween(from, to.parents[1])

\* ValidateSummarize(targetBranch, skipDefaultBranchCheck): the error it
\* returns, "" for nil.  fault names the one call that fails, by its line.
ValidateSummarize(w, targetBranch, skipDefaultBranchCheck, fault) ==
    IF ~skipDefaultBranchCheck /\ fault = "IsOnDefaultBranch:24"
    THEN "failed to check current branch"
    ELSE IF ~skipDefaultBranchCheck /\ IsOnDefaultBranch(w)
    THEN "cannot summarize default branch - create a feature branch first"
    ELSE IF fault = "BranchExists:34" THEN "failed to check target branch"
    ELSE IF ~BranchExists(w, targetBranch) THEN "target branch not found"
    ELSE IF fault = "HasUncommittedChanges:43"
    THEN "failed to check for uncommitted changes"
    ELSE IF HasUncommittedChanges(w)
    THEN "uncommitted changes detected - commit or stash them before summarizing"
    ELSE IF fault = "GetCurrentBranch:52" THEN "failed to get current branch"
    ELSE IF GetMergeBase(w, w.head, targetBranch) = <<>>
    THEN "failed to find common ancestor"
    ELSE IF fault = "openRepository:64" THEN "failed to open git repository"
    ELSE IF fault = "Head:69" THEN "failed to get HEAD"
    ELSE IF fault = "CountCommitsBetween:75" THEN "failed to count commits"
    ELSE IF CountCommitsBetween(GetMergeBase(w, w.head, targetBranch)[1], HeadCommit(w)) = 0
    THEN "no commits to summarize - branch is at same commit as target"
    ELSE ""

ValidateFaults ==
    {"none", "IsOnDefaultBranch:24", "BranchExists:34", "HasUncommittedChanges:43",
     "GetCurrentBranch:52", "openRepository:64", "Head:69", "CountCommitsBetween:75"}

\* A plausible slip: the squashed commit is put on top of the source tip.
SquashParentSourceTip(w, sourceBranch, targetBranch) == <<TipOfBranch(w, sourceBranch)>>

\* ParentHashes of the squashed commit.
SquashParent(w, sourceBranch, targetBranch) ==
    <<GetMergeBase(w, sourceBranch, targetBranch)[1]>>

\* A plausible slip: the commit object is not stored.
SetEncodedObjectNot(w, commit) == w

\* repo.Storer.SetEncodedObject(obj): the object store gains the commit.
SetEncodedObject(w, commit) == [w EXCEPT !.objects = @ \cup {commit}]

\* repo.Storer.SetReference(NewHashReference(NewBranchReferenceName(new), hash))
SetSquashReference(w, newBranchName, commit) ==
    [w EXCEPT !.refs[newBranchName] = <<commit>>]

\* CreateSquashedBranch(sourceBranch, targetBranch, newBranchName, message,
\* trailers, author): the repository it leaves and the error it returns.
CreateSquashedBranch(w, sourceBranch, targetBranch, newBranchName, message, trailers, iteration, fault) ==
    IF fault = "openRepository:144" THEN [w |-> w, err |-> "failed to open git repository"]
    ELSE IF fault = "GetMergeBase:150" \/ GetMergeBase(w, sourceBranch, targetBranch) = <<>>
    THEN [w |-> w, err |-> "failed to find merge base"]
    ELSE IF fault = "Reference:156" \/ ~HasRef(w, sourceBranch)
    THEN [w |-> w, err |-> "failed to resolve source branch"]
    ELSE IF fault = "CommitObject:161" THEN [w |-> w, err |-> "failed to get source commit"]
    ELSE
    LET sourceCommit == TipOfBranch(w, sourceBranch)
        commit == NewCommit(SquashParent(w, sourceBranch, targetBranch),
                            sourceCommit.tree,
                            BuildFullMessage(message, trailers, iteration))
    IN  IF fault = "Encode:207" THEN [w |-> w, err |-> "failed to encode commit"]
        ELSE IF fault = "SetEncodedObject:210" THEN [w |-> w, err |-> "failed to store commit"]
        ELSE IF fault = "SetReference:217"
        THEN [w |-> SetEncodedObject(w, commit), err |-> "failed to create branch reference"]
        ELSE [w |-> SetSquashReference(SetEncodedObject(w, commit), newBranchName, commit),
              err |-> ""]

SquashFaults ==
    {"none", "openRepository:144", "GetMergeBase:150", "Reference:156",
     "CommitObject:161", "Encode:207", "SetEncodedObject:210", "SetReference:217"}

\* The first seven digits of a commit hash; the model names a commit by its tree.
ShortHash(c) == c.tree

\* A text the model does not look into: one element.
Text(word) == <<word>>

\* The trailers runSummarize builds, and the keys in the order it sets them.
SummarizeTrailers(w, mergeBase, sessionInfo) ==
    LET always == (KeySourceBranch :> Text(w.head))
                    @@ (KeySourceRange :> <<ShortHash(mergeBase), ".", ".",
                                            ShortHash(HeadCommit(w))>>)
                    @@ (KeyGeneratedBy :> Text("entire-cli"))
    IN  [isNil |-> FALSE,
         entries |-> IF sessionInfo
                     THEN (KeySession :> Text("2025-01-01-alpha"))
                            @@ (KeyStrategy :> Text("manual-commit")) @@ always
                     ELSE always]
SummarizeKeyOrder(sessionInfo) ==
    (IF sessionInfo THEN <<KeySession, KeyStrategy>> ELSE <<>>)
        \o <<KeySourceBranch, KeySourceRange, KeyGeneratedBy>>

\* runSummarize(message, target, summaryBranchName, force): the repository it
\* leaves, the summary branch it chose, what it printed and the error.
runSummarize(w, message, target, summaryBranchName, force, sessionInfo, fault) ==
    LET stop(name, e) == [w |-> w, summary |-> name, out |-> <<>>, err |-> e]
        v == ValidateSummarize(w, target, FALSE, fault)
        currentBranch == w.head
        name == IF summaryBranchName = "" THEN "entire/pr/" \o currentBranch
                ELSE summaryBranchName
    IN
    IF v # "" THEN stop(name, v)
    ELSE IF fault = "GetCurrentBranch:261" THEN stop(name, "failed to get current branch")
    ELSE IF ~force /\ fault = "BranchExistsOnRemote:273"
    THEN stop(name, "failed to check remote branch")
    ELSE IF ~force /\ BranchExistsOnRemote(w, name)
    THEN stop(name, "summary branch exists on remote. Use --force to overwrite")
    ELSE IF fault = "GetMergeBase:283" THEN stop(name, "failed to find merge base")
    ELSE IF fault = "openRepository:289" THEN stop(name, "failed to open repository")
    ELSE IF fault = "Head:293" THEN stop(name, "failed to get HEAD")
    ELSE IF fault = "GetGitAuthor:316" THEN stop(name, "failed to get git author")
    ELSE
    LET mergeBase == GetMergeBase(w, currentBranch, target)[1]
        headHash == HeadCommit(w)
        c == CreateSquashedBranch(w, currentBranch, target, name, message,
                                  SummarizeTrailers(w, mergeBase, sessionInfo),
                                  SummarizeKeyOrder(sessionInfo), fault)
        commitCount == IF fault = "CountCommitsBetween:327" THEN 0
                       ELSE CountCommitsBetween(mergeBase, headHash)
    IN  IF c.err # "" THEN [w |-> c.w, summary |-> name, out |-> <<>>,
                            err |-> "failed to create squashed branch"]
        ELSE [w |-> c.w, summary |-> name,
              out |-> <<[kind |-> "Created summary branch:", arg |-> name],
                        [kind |-> "Source branch:", arg |-> currentBranch],
                        [kind |-> "commits squashed", arg |-> ToString(commitCount)],
                        [kind |-> "Your original branch remains unchanged for reference.",
                         arg |-> currentBranch]>>,
              err |-> ""]

SummarizeFaults ==
    ValidateFaults \cup SquashFaults \cup
    {"GetCurrentBranch:261", "BranchExistsOnRemote:273", "GetMergeBase:283",
     "openRepository:289", "Head:293", "GetGitAuthor:316", "CountCommitsBetween:327"}

SumMessage == <<"f", "e", "a", "t">>
TestTrailers ==
    [isNil |-> FALSE, entries |-> (KeyZebra :> <<"z">>) @@ (KeyAlpha :> <<"a">>)]

NoSumCall ==
    [op |-> "none", source |-> "", target |-> "", new |-> "", fault |-> "none",
     force |-> FALSE, before |-> <<>>, out |-> <<>>, err |-> ""]

\* The commits a repository holds when every reference is fully linked.
Reachable(refsOf) ==
    UNION {History(refsOf[b][1]) : b \in {x \in DOMAIN refsOf : refsOf[x] # <<>>}}

SumInit ==
    /\ sumRepo \in
         { [refs |-> [b \in SumBranchNames |->
                        IF b = MainBranch THEN <<m>>
                        ELSE IF b = FeatureBranch THEN <<f>>
                        ELSE IF b = SummaryBranch THEN s
                        ELSE <<>>],
            objects |-> Reachable([b \in SumBranchNames |->
                        IF b = MainBranch THEN <<m>>
                        ELSE IF b = FeatureBranch THEN <<f>>
                        ELSE IF b = SummaryBranch THEN s
                        ELSE <<>>]),
            head |-> h, dirty |-> d, remote |-> o] :
             m \in {BaseCommit, MainAhead},
             f \in {FeatureChain(c, n) : c \in {BaseCommit, MainAhead, UnrelatedRoot},
                                         n \in 0..MaxSourceCommits},
             s \in {<<>>, <<NewCommit(<<BaseCommit>>, "feature 1", SumMessage)>>},
             h \in {MainBranch, FeatureBranch}, d \in BOOLEAN,
             o \in {{}, {SummaryBranch}} }
    /\ sumCall = NoSumCall

\* A caller runs ValidateSummarize.
CallValidateSummarize ==
    /\ sumCall.op = "none"
    /\ \E target \in {MainBranch, FeatureBranch, Nonexistent}, skip \in BOOLEAN,
          fault \in ValidateFaults :
         sumCall' = [NoSumCall EXCEPT !.op = IF skip THEN "validate, skipping" ELSE "validate",
                                      !.source = sumRepo.head, !.target = target,
                                      !.fault = fault, !.before = sumRepo,
                                      !.err = ValidateSummarize(sumRepo, target, skip, fault)]
    /\ UNCHANGED <<sumRepo, exceptSum>>

\* A caller runs CreateSquashedBranch.
CallCreateSquashedBranch ==
    /\ sumCall.op = "none"
    /\ \E source \in {FeatureBranch, MainBranch},
          target \in {MainBranch, FeatureBranch, Nonexistent},
          new \in {SummaryBranch, TestBranch, FeatureBranch, MainBranch},
          trailers \in {NilMap, TestTrailers}, fault \in SquashFaults :
         \E iteration \in Orders(DOMAIN trailers.entries) :
           \E c \in {CreateSquashedBranch(sumRepo, source, target, new, SumMessage,
                                          trailers, iteration, fault)} :
               /\ sumRepo' = c.w
               /\ sumCall' = [NoSumCall EXCEPT !.op = "squash", !.source = source,
                                            !.target = target, !.new = new,
                                            !.fault = fault, !.before = sumRepo,
                                            !.err = c.err]
    /\ UNCHANGED exceptSum

\* The user runs "entire summarize -m <message> [-t target] [-b branch] [-f]".
CallRunSummarize ==
    /\ sumCall.op = "none"
    /\ \E target \in {MainBranch, Nonexistent},
          summaryBranchName \in {"", TestBranch, FeatureBranch, MainBranch},
          force \in BOOLEAN, sessionInfo \in BOOLEAN, fault \in SummarizeFaults :
         \E c \in {runSummarize(sumRepo, SumMessage, target, summaryBranchName,
                                force, sessionInfo, fault)} :
             /\ sumRepo' = c.w
             /\ sumCall' = [NoSumCall EXCEPT !.op = "summarize", !.source = sumRepo.head,
                                          !.target = target, !.new = c.summary,
                                          !.fault = fault, !.force = force,
                                          !.before = sumRepo,
                                          !.out = c.out, !.err = c.err]
    /\ UNCHANGED exceptSum

(***************************************************************************)
(* Part 7.  The description derived from a prompt                          *)
(*                                                                         *)
(* A Go string is a sequence of bytes.  An ASCII byte is written as its    *)
(* character; the bytes of a character outside ASCII are written "xC3",    *)
(* "xA9" and so on (the two bytes of U+00E9 are "xC3", "xA9").             *)
(***************************************************************************)
PromptPrefixes ==
    <<<<"C", "a", "n", " ", "y", "o", "u", " ">>,
      <<"c", "a", "n", " ", "y", "o", "u", " ">>,
      <<"P", "l", "e", "a", "s", "e", " ">>,
      <<"p", "l", "e", "a", "s", "e", " ">>,
      <<"L", "e", "t", "'", "s", " ">>,
      <<"l", "e", "t", "'", "s", " ">>,
      <<"C", "o", "u", "l", "d", " ", "y", "o", "u", " ">>,
      <<"c", "o", "u", "l", "d", " ", "y", "o", "u", " ">>,
      <<"W", "o", "u", "l", "d", " ", "y", "o", "u", " ">>,
      <<"w", "o", "u", "l", "d", " ", "y", "o", "u", " ">>,
      <<"I", " ", "w", "a", "n", "t", " ", "y", "o", "u", " ", "t", "o", " ">>,
      <<"I", "'", "d", " ", "l", "i", "k", "e", " ", "y", "o", "u", " ", "t", "o", " ">>,
      <<"I", " ", "n", "e", "e", "d", " ", "y", "o", "u", " ", "t", "o", " ">>>>

\* The first prefix, in the order of the list, that `cleaned` starts with; 0
\* when there is none.
RECURSIVE FindPrefix(_, _)
FindPrefix(cleaned, i) ==
    IF i > Len(PromptPrefixes) THEN 0
    ELSE IF HasPrefix(cleaned, PromptPrefixes[i]) THEN i
    ELSE FindPrefix(cleaned, i + 1)

\* strings.TrimSuffix
TrimSuffix(s, suffix) ==
    IF Len(s) >= Len(suffix) /\ SubSeq(s, Len(s) - Len(suffix) + 1, Len(s)) = suffix
    THEN SubSeq(s, 1, Len(s) - Len(suffix))
    ELSE s

\* strings.TrimSpace: the white space of unicode.IsSpace that one byte holds.
WhiteSpace == {" ", "\t", "\n", "\r"}
RECURSIVE TrimLeftSpace(_)
TrimLeftSpace(s) ==
    IF s # <<>> /\ Head(s) \in WhiteSpace THEN TrimLeftSpace(Tail(s)) ELSE s
RECURSIVE TrimRightSpace(_)
TrimRightSpace(s) ==
    IF s # <<>> /\ s[Len(s)] \in WhiteSpace
    THEN TrimRightSpace(SubSeq(s, 1, Len(s) - 1))
    ELSE s
TrimSpace(s) == TrimRightSpace(TrimLeftSpace(s))

DescriptionLimit == 72

LowerLetters == <<"a", "b", "c", "d", "e", "f", "g", "h", "i", "j", "k", "l", "m", "n", "o", "p", "q", "r", "s", "t", "u", "v", "w", "x", "y", "z">>
UpperLetters == <<"A", "B", "C", "D", "E", "F", "G", "H", "I", "J", "K", "L", "M", "N", "O", "P", "Q", "R", "S", "T", "U", "V", "W", "X", "Y", "Z">>

\* string(b) for a byte b: the UTF-8 encoding of the code point whose number
\* is the byte's value, two bytes for a byte from 0x80 up (0xC3 gives U+00C3,
\* encoded C3 83; 0xA9 gives U+00A9, encoded C2 A9).
StringOfByte(b) ==
    IF b = "xC3" THEN <<"xC3", "x83">>
    ELSE IF b = "xA9" THEN <<"xC2", "xA9">>
    ELSE <<b>>

\* strings.ToUpper on the strings StringOfByte returns: an ASCII letter goes
\* to its capital; U+00C3 and U+00A9 are their own upper case.
ToUpper(s) ==
    [i \in DOMAIN s |->
        IF \E k \in DOMAIN LowerLetters : LowerLetters[k] = s[i]
        THEN UpperLetters[CHOOSE k \in DOMAIN LowerLetters : LowerLetters[k] = s[i]]
        ELSE s[i]]

\* cleanPromptForCommit after its loop: the question mark, the white space,
\* the cut at 72 bytes and the capital first letter.
CleanAfterLoop(cleaned) ==
    LET trimmed == TrimSpace(TrimSuffix(cleaned, <<"?">>))
        cut == IF Len(trimmed) > DescriptionLimit
               THEN TrimSpace(SubSeq(trimmed, 1, DescriptionLimit))
               ELSE trimmed
    IN  IF Len(cut) > 0 THEN ToUpper(StringOfByte(cut[1])) \o Tail(cut) ELSE cut

DefaultCommitMessage ==
    <<"C", "l", "a", "u", "d", "e", " ", "C", "o", "d", "e", " ", "s", "e", "s", "s", "i", "o", "n", " ", "u", "p", "d", "a", "t", "e", "s">>

MaxChunks == 3     \* most pieces a prompt is made of
FillerLen == 71    \* length of the long word of a prompt

PromptChunks ==
    {<<"P", "l", "e", "a", "s", "e", " ">>,
     <<"c", "a", "n", " ", "y", "o", "u", " ">>,
     <<"I", " ", "w", "a", "n", "t", " ", "y", "o", "u", " ", "t", "o", " ">>,
     <<" ">>,
     <<"?">>,
     <<"f", "i", "x">>,
     <<"xC3", "xA9">>,
     <<"\t">>,
     [i \in 1..FillerLen |-> "a"]}
RECURSIVE PromptsOf(_)
PromptsOf(n) ==
    IF n = 0 THEN {<<>>}
    ELSE PromptsOf(n - 1) \cup {p \o c : p \in PromptsOf(n - 1), c \in PromptChunks}

NoPromptRun(prompt) == [prompt |-> prompt, pc |-> "idle", cleaned |-> <<>>, message |-> <<>>]

PromptInit == promptRun \in {NoPromptRun(p) : p \in PromptsOf(MaxChunks)}

\* generateCommitMessage(originalPrompt) is called: the empty prompt gets the
\* default message at once, any other enters cleanPromptForCommit.
CallGenerateCommitMessage ==
    /\ promptRun.pc = "idle"
    /\ promptRun' =
         IF promptRun.prompt = <<>>
         THEN [promptRun EXCEPT !.pc = "done", !.message = DefaultCommitMessage]
         ELSE [promptRun EXCEPT !.pc = "loop", !.cleaned = promptRun.prompt]
    /\ UNCHANGED exceptPrompt

\* One round of the loop that found a prefix and removed it.
StripPrefix ==
    /\ promptRun.pc = "loop"
    /\ FindPrefix(promptRun.cleaned, 1) # 0
    /\ promptRun' = [promptRun EXCEPT
                       !.cleaned = TrimPrefix(@, PromptPrefixes[FindPrefix(@, 1)])]
    /\ UNCHANGED exceptPrompt

\* The round that found no prefix: the loop ends, cleanPromptForCommit
\* returns and generateCommitMessage picks the result or the default.
LeaveLoop ==
    /\ promptRun.pc = "loop"
    /\ FindPrefix(promptRun.cleaned, 1) = 0
    /\ \E cleaned \in {CleanAfterLoop(promptRun.cleaned)} :
         promptRun' = [promptRun EXCEPT
                         !.pc = "done", !.cleaned = cleaned,
                         !.message = IF cleaned # <<>> THEN cleaned
                                     ELSE DefaultCommitMessage]
    /\ UNCHANGED exceptPrompt

(***************************************************************************)
(* Part 8.  .worktrees in .gitignore                                       *)
(***************************************************************************)
DotWorktrees == <<".", "w", "o", "r", "k", "t", "r", "e", "e", "s">>

\* worktreesEntryRegex matches at position i: (?m)^ holds at the start of
\* the text and after a newline, then ".worktrees", then nothing, "/" or
\* "/*", then (?m)$, which holds at the end of the text and before a newline.
WorktreesEntryAt(content, i) ==
    /\ i = 1 \/ content[i - 1] = "\n"
    /\ HasPrefix(SubSeq(content, i, Len(content)), DotWorktrees)
    /\ \E tail \in {<<>>, <<"/">>, <<"/", "*">>} :
         LET j == i + Len(DotWorktrees)
         IN  /\ HasPrefix(SubSeq(content, j, Len(content)), tail)
             /\ j + Len(tail) > Len(content) \/ content[j + Len(tail)] = "\n"

\* A plausible slip: only the bare entry is recognised.
hasWorktreesEntryBare(content) ==
    \E i \in 1..Len(content) :
        /\ i = 1 \/ content[i - 1] = "\n"
        /\ HasPrefix(SubSeq(content, i, Len(content)), DotWorktrees)
        /\ i + Len(DotWorktrees) > Len(content) \/ content[i + Len(DotWorktrees)] = "\n"

\* hasWorktreesEntry(content)
hasWorktreesEntry(content) == \E i \in 1..Len(content) : WorktreesEntryAt(content, i)

\* A file that does not exist reads as no bytes.
NoFile == [exists |-> FALSE, content |-> <<>>]
File(content) == [exists |-> TRUE, content |-> content]

IgnoreFaults == {"none", "read", "write"}

\* ensureWorktreesInGitignoreAt(".gitignore") on file f: the file it leaves
\* and the error it returns.  The fault is the one call that fails: ReadFile
\* with an error other than "not exist", or WriteFile before it wrote.
ensureWorktreesInGitignoreAt(f, fault) ==
    IF fault = "read" THEN [file |-> f, err |-> "failed to read .gitignore"]
    ELSE IF hasWorktreesEntry(f.content) THEN [file |-> f, err |-> ""]
    ELSE LET newContent ==
                 IF Len(f.content) = 0 THEN DotWorktrees \o <<"\n">>
                 ELSE IF f.content[Len(f.content)] = "\n"
                 THEN f.content \o DotWorktrees \o <<"\n">>
                 ELSE f.content \o <<"\n">> \o DotWorktrees \o <<"\n">>
         IN  IF fault = "write" THEN [file |-> f, err |-> "failed to write .gitignore"]
             ELSE [file |-> File(newContent), err |-> ""]

MaxPieces == 3        \* most pieces of the .gitignore the model starts from
NumEnsureCalls == 2   \* calls of EnsureWorktreesInGitignore in one behaviour

IgnorePieces ==
    {DotWorktrees, <<"/">>, <<"*">>, <<"\n">>, <<" ">>, <<"m", "y">>,
     <<"n", "o", "d", "e", "_", "m", "o", "d", "u", "l", "e", "s">>}
RECURSIVE ContentsOf(_)
ContentsOf(n) ==
    IF n = 0 THEN {<<>>}
    ELSE ContentsOf(n - 1) \cup {c \o p : c \in ContentsOf(n - 1), p \in IgnorePieces}

NoIgnoreRun == [calls |-> 0, before |-> NoFile, fault |-> "none", err |-> "", okBefore |-> FALSE]

IgnoreInit ==
    /\ gitignore \in {NoFile} \cup {File(c) : c \in ContentsOf(MaxPieces)}
    /\ ignoreRun = NoIgnoreRun

\* EnsureWorktreesInGitignore() is called.
CallEnsureWorktreesInGitignore ==
    /\ ignoreRun.calls < NumEnsureCalls
    /\ \E fault \in IgnoreFaults :
         \E r \in {ensureWorktreesInGitignoreAt(gitignore, fault)} :
             /\ gitignore' = r.file
             /\ ignoreRun' = [calls |-> ignoreRun.calls + 1, before |-> gitignore,
                              fault |-> fault, err |-> r.err,
                              okBefore |-> ignoreRun.okBefore
                                             \/ (ignoreRun.calls > 0 /\ ignoreRun.err = "")]
    /\ UNCHANGED exceptIgnore

(***************************************************************************)
(* Part 9.  entire start                                                   *)
(*                                                                         *)
(* startRepo holds the local branches and those of origin (a map from a    *)
(* branch name to the hash it points to, NoHash when it does not exist),   *)
(* the checked-out branch, whether the worktree has uncommitted changes,   *)
(* the worktrees under .worktrees, the files the command may create and    *)
(* the root .gitignore.                                                    *)
(***************************************************************************)
NoHash == "none"

\* The character class [a-zA-Z0-9_-] of featureNameRegex.
FeatureNameClass == Range(LowerLetters) \cup Range(UpperLetters) \cup Digits \cup {"_", "-"}

\* A plausible slip: every name passes.
ValidateFeatureNameAny(name) == ""

\* ValidateFeatureName(name): the error, "" for nil.
ValidateFeatureName(name) ==
    IF name = <<>> THEN "feature name is required"
    ELSE IF ~(\A i \in DOMAIN name : name[i] \in FeatureNameClass)
    THEN "invalid feature name"
    ELSE ""

\* GetBranchName(name, prefix)
GetBranchName(name, prefix) ==
    (IF prefix = <<>> THEN <<"f", "e", "a", "t", "u", "r", "e", "/">> ELSE prefix) \o name

\* GetWorktreePath(name): the worktree is named by its directory under .worktrees.
GetWorktreePath(name) == name

\* branchExists(repo, branchName)
branchExists(w, branch) == w.local[branch] # NoHash

\* resolveBaseBranch(repo, baseBranch): <<hash>>, or <<>> for "not found".
resolveBaseBranch(w, baseBranch) ==
    IF w.local[baseBranch] # NoHash THEN <<w.local[baseBranch]>>
    ELSE IF w.origin[baseBranch] # NoHash THEN <<w.origin[baseBranch]>>
    ELSE <<>>

\* docs/requirements/<name>/README.md under `root`.
RequirementsFile(root, name) == [root |-> root, name |-> name]

\* scaffoldRequirements(worktreePath, name, templatePath)
scaffoldRequirements(w, root, name, fault) ==
    IF fault = "ReadFile:374" THEN [w |-> w, err |-> "failed to read template"]
    ELSE IF fault = "MkdirAll:381"
    THEN [w |-> w, err |-> "failed to create requirements directory"]
    ELSE IF fault = "WriteFile:387"
    THEN [w |-> w, err |-> "failed to write requirements file"]
    ELSE [w |-> [w EXCEPT !.files = @ \cup {RequirementsFile(root, name)}], err |-> ""]

StartResult(w, out, err) == [w |-> w, out |-> out, err |-> err]

\* A plausible slip: the branch is left behind when the checkout fails.
RollbackNot(w, branch, removeFails) == w

\* The rollback of runStartWithCheckout: RemoveReference, its error dropped.
Rollback(w, branch, removeFails) ==
    IF removeFails THEN w ELSE [w EXCEPT !.local[branch] = NoHash]

\* runStartWithCheckout.  fault is the call that fails; removeFails is
\* whether RemoveReference fails as well when the rollback runs.
runStartWithCheckout(w, name, branch, baseHash, scaffold, fault, removeFails) ==
    IF fault = "Worktree:235" THEN StartResult(w, "", "failed to get worktree")
    ELSE IF fault = "Status:242" THEN StartResult(w, "", "failed to get worktree status")
    ELSE IF w.dirty
    THEN StartResult(w, "", "working directory has uncommitted changes; commit or stash them first")
    ELSE IF fault = "SetReference:253" THEN StartResult(w, "", "failed to create branch")
    ELSE
    LET created == [w EXCEPT !.local[branch] = baseHash]
    IN  IF fault = "checkout:261"
        THEN StartResult(Rollback(created, branch, removeFails), "",
                         "failed to checkout branch")
        ELSE
        LET checkedOut == [created EXCEPT !.head = branch]
            s == IF scaffold THEN scaffoldRequirements(checkedOut, ".", name, fault)
                 ELSE [w |-> checkedOut, err |-> ""]
        IN  IF s.err # "" THEN StartResult(s.w, "", "failed to scaffold requirements")
            ELSE StartResult(s.w, "Created and checked out branch", "")

\* runStartWithWorktree.  git worktree add -b <branch> <path> <base> needs a
\* base it can resolve, which a branch found only on origin is not.
runStartWithWorktree(w, name, branch, baseBranch, scaffold, gitignoreFault, fault) ==
    IF fault = "GetMainRepoRoot:293" THEN StartResult(w, "", "failed to find main repository")
    ELSE IF GetWorktreePath(name) \in w.worktrees
    THEN StartResult(w, "", "worktree already exists")
    ELSE
    LET g == ensureWorktreesInGitignoreAt(w.gitignore, gitignoreFault)
        ignored == [w EXCEPT !.gitignore = g.file]
    IN  IF g.err # "" THEN StartResult(ignored, "", "failed to update .gitignore")
        ELSE IF fault = "MkdirAll:312"
        THEN StartResult(ignored, "", "failed to create .worktrees directory")
        ELSE
        LET dir == [ignored EXCEPT !.dirs = @ \cup {".worktrees"}]
        IN  IF fault = "worktree add:320" \/ w.local[baseBranch] = NoHash
            THEN StartResult(dir, "", "failed to create worktree")
            ELSE
            LET added == [dir EXCEPT !.local[branch] = w.local[baseBranch],
                                     !.worktrees = @ \cup {GetWorktreePath(name)}]
                s == IF scaffold
                     THEN scaffoldRequirements(added, GetWorktreePath(name), name, fault)
                     ELSE [w |-> added, err |-> ""]
            IN  IF s.err # "" THEN StartResult(s.w, "", "failed to scaffold requirements")
                ELSE StartResult(s.w, "Created worktree", "")

\* runStart(name, baseBranch, scaffold, openEditor, useWorktree) under the
\* settings start.branchPrefix and start.requirementsTemplate.
runStart(w, name, baseBranch, scaffold, useWorktree, settings, gitignoreFault, fault, removeFails) ==
    IF ValidateFeatureName(name) # "" THEN StartResult(w, "", ValidateFeatureName(name))
    ELSE IF fault = "OpenRepository:170" THEN StartResult(w, "", "not in a git repository")
    ELSE
    LET branch == GetBranchName(name, settings.BranchPrefix)
    IN  IF branchExists(w, branch) THEN StartResult(w, "", "branch already exists")
        ELSE IF resolveBaseBranch(w, baseBranch) = <<>>
        THEN StartResult(w, "", "base branch not found")
        ELSE IF scaffold /\ settings.RequirementsTemplate = ""
        THEN StartResult(w, "", "no requirements template configured")
        ELSE IF scaffold /\ settings.RequirementsTemplate \notin w.templates
        THEN StartResult(w, "", "requirements template not found")
        ELSE IF useWorktree
        THEN runStartWithWorktree(w, name, branch, baseBranch, scaffold, gitignoreFault, fault)
        ELSE runStartWithCheckout(w, name, branch, resolveBaseBranch(w, baseBranch)[1],
                                  scaffold, fault, removeFails)

StartFaults ==
    {"none", "OpenRepository:170", "Worktree:235", "Status:242", "SetReference:253",
     "checkout:261", "GetMainRepoRoot:293", "MkdirAll:312", "worktree add:320",
     "ReadFile:374", "MkdirAll:381", "WriteFile:387"}

StartMain == <<"m", "a", "i", "n">>
Develop == <<"d", "e", "v", "e", "l", "o", "p">>
Missing == <<"m", "i", "s", "s", "i", "n", "g">>
FeatPrefix == <<"f", "e", "a", "t", "/">>
FeatureNames == {<<>>, <<"f", "x">>, <<"f", " ", "x">>, <<"a", "/", "b">>, <<"F", "-", "x", "_", "1">>}
StartBranches ==
    {StartMain, Develop, Missing}
        \cup {GetBranchName(n, p) : n \in FeatureNames, p \in {<<>>, FeatPrefix}}
StartSettings ==
    [BranchPrefix : {<<>>, FeatPrefix},
     RequirementsTemplate : {"", "docs/template.md", "docs/gone.md"}]

NoStartRun ==
    [op |-> "none", name |-> <<>>, base |-> <<>>, scaffold |-> FALSE, worktree |-> FALSE,
     settings |-> [BranchPrefix |-> <<>>, RequirementsTemplate |-> ""],
     fault |-> "none", removeFails |-> FALSE, before |-> <<>>, out |-> "", err |-> ""]

StartRepos ==
    { [local |-> [b \in StartBranches |->
                    IF b = StartMain THEN "c0"
                    ELSE IF b = Develop /\ d = "local" THEN "c1"
                    ELSE IF b = GetBranchName(<<"f", "x">>, <<>>) /\ e THEN "c9"
                    ELSE NoHash],
       origin |-> [b \in StartBranches |->
                    IF b = StartMain THEN "c0"
                    ELSE IF b = Develop /\ d # "nowhere" THEN "c2"
                    ELSE NoHash],
       head |-> StartMain, dirty |-> dirty, worktrees |-> wt, files |-> {}, dirs |-> {},
       templates |-> {"docs/template.md"}, gitignore |-> g] :
        d \in {"local", "origin", "nowhere"}, e \in BOOLEAN, dirty \in BOOLEAN,
        wt \in {{}, {<<"f", "x">>}},
        g \in {NoFile, File(DotWorktrees \o <<"/", "\n">>)} }

StartInit ==
    /\ startRepo \in StartRepos
    /\ startRun = NoStartRun

\* The user runs "entire start <name> [--base b] [--scaffold] [--worktree]".
CallRunStart ==
    /\ startRun.op = "none"
    /\ \E name \in FeatureNames, baseBranch \in {StartMain, Develop, Missing},
          scaffold \in BOOLEAN, useWorktree \in BOOLEAN, settings \in StartSettings,
          fault \in StartFaults, removeFails \in BOOLEAN :
         \E gitignoreFault \in (IF fault = "none" THEN IgnoreFaults ELSE {"none"}) :
           \E r \in {runStart(startRepo, name, baseBranch, scaffold, useWorktree,
                              settings, gitignoreFault, fault, removeFails)} :
               /\ startRepo' = r.w
               /\ startRun' = [op |-> "start", name |-> name, base |-> baseBranch,
                               scaffold |-> scaffold, worktree |-> useWorktree,
                               settings |-> settings, fault |-> fault,
                               removeFails |-> removeFails, before |-> startRepo,
                               out |-> r.out, err |-> r.err]
    /\ UNCHANGED exceptStart

(***************************************************************************)
(* Part 10.  The git hooks and the user commit                             *)
(*                                                                         *)
(* InstallGitHook writes four shell scripts, each one line that runs the   *)
(* entire command and says what to do when it fails.  git runs them        *)
(* around a commit (prepare-commit-msg, commit-msg, post-commit) and a     *)
(* push (pre-push); a hook that exits with a status other than 0 stops the *)
(* operation, except post-commit, whose status git does not use.  What     *)
(* the entire command does inside a hook is taken from the specification   *)
(* of the condensation pipeline.                                           *)
(***************************************************************************)
GitHooks == {"prepare-commit-msg", "commit-msg", "post-commit", "pre-push"}

\* A plausible slip: every hook script ends in "|| exit 1".
OrElseExitAlways(hook) == "exit 1"

\* What stands after "||" in the script of the hook.
OrElse(hook) == IF hook = "commit-msg" THEN "exit 1" ELSE "true"

\* The exit status of the script "<command> || <orElse>" when the command
\* returned `status`.
HookExit(hook, status) ==
    IF status = 0 THEN 0
    ELSE IF OrElse(hook) = "true" THEN 0
    ELSE 1

\* Whether git goes on after the hook exited with `exit`.
GitProceeds(hook, exit) == hook = "post-commit" \/ exit = 0

\* A plausible slip: the handler lets a message without a body pass.
commitMsgHandlerLenient(messageBody, broken) == IF broken THEN 1 ELSE 0

\* "entire hooks git commit-msg <file>": its status.  It fails when the
\* message has no body once the trailers are stripped, or when it is broken
\* (cannot run, cannot read the file).
commitMsgHandler(messageBody, broken) ==
    IF broken THEN 1
    ELSE IF messageBody = "empty" THEN 1
    ELSE 0

MaxUserCommits == 3   \* commits the user attempts in one behaviour

NoHook == [hook |-> "none", status |-> 0, exit |-> 0]
Drafting(n) ==
    [no |-> n, state |-> "drafting", body |-> "unset", placeholder |-> FALSE,
     stamped |-> FALSE, push |-> "none", last |-> NoHook]

HookInit ==
    /\ commitRun = Drafting(1)
    /\ checkpoints = {}

\* git add
Stage ==
    /\ commitRun.state = "drafting"
    /\ commitRun' = [commitRun EXCEPT !.state = "staged"]
    /\ UNCHANGED <<checkpoints, exceptHook>>

\* git commit runs prepare-commit-msg, which injects the placeholder trailer
\* unless the entire command fails; the user then writes the message, with a
\* body or without one.
PrepareCommitMsg ==
    /\ commitRun.state = "staged"
    /\ \E status \in {0, 1}, messageBody \in {"empty", "text"} :
         \E exit \in {HookExit("prepare-commit-msg", status)} :
           commitRun' =
             IF GitProceeds("prepare-commit-msg", exit)
             THEN [commitRun EXCEPT !.state = "message-edited", !.body = messageBody,
                                    !.placeholder = (status = 0),
                                    !.last = [hook |-> "prepare-commit-msg",
                                              status |-> status, exit |-> exit]]
             ELSE [commitRun EXCEPT !.state = "aborted",
                                    !.last = [hook |-> "prepare-commit-msg",
                                              status |-> status, exit |-> exit]]
    /\ UNCHANGED <<checkpoints, exceptHook>>

\* git runs commit-msg on the edited message: the commit is made and the
\* trailer stamped when the hook exits 0, and aborted otherwise.
CommitMsg ==
    /\ commitRun.state = "message-edited"
    /\ \E broken \in BOOLEAN :
         \E status \in {commitMsgHandler(commitRun.body, broken)} :
           \E exit \in {HookExit("commit-msg", status)} :
             commitRun' =
               IF GitProceeds("commit-msg", exit)
               THEN [commitRun EXCEPT !.state = "committed",
                                      !.stamped = (status = 0 /\ commitRun.placeholder),
                                      !.last = [hook |-> "commit-msg",
                                                status |-> status, exit |-> exit]]
               ELSE [commitRun EXCEPT !.state = "aborted",
                                      !.last = [hook |-> "commit-msg",
                                                status |-> status, exit |-> exit]]
    /\ UNCHANGED <<checkpoints, exceptHook>>

\* git runs post-commit, which condenses the session into a checkpoint of
\* this commit unless the entire command fails.
PostCommit ==
    /\ commitRun.state = "committed"
    /\ commitRun.last.hook = "commit-msg"
    /\ \E status \in {0, 1} :
         \E exit \in {HookExit("post-commit", status)} :
           /\ commitRun' = [commitRun EXCEPT
                              !.state = IF status = 0 /\ commitRun.stamped
                                        THEN "condensed" ELSE "committed",
                              !.last = [hook |-> "post-commit",
                                        status |-> status, exit |-> exit]]
           /\ checkpoints' = IF status = 0 /\ commitRun.stamped
                             THEN checkpoints \cup {commitRun.no} ELSE checkpoints
    /\ UNCHANGED exceptHook

\* git push runs pre-push, which pushes the session logs along.
PrePush ==
    /\ commitRun.state \in {"committed", "condensed"}
    /\ commitRun.last.hook = "post-commit"
    /\ commitRun.push = "none"
    /\ \E status \in {0, 1} :
         \E exit \in {HookExit("pre-push", status)} :
           commitRun' = [commitRun EXCEPT
                           !.push = IF GitProceeds("pre-push", exit)
                                    THEN "pushed" ELSE "rejected",
                           !.last = [hook |-> "pre-push",
                                     status |-> status, exit |-> exit]]
    /\ UNCHANGED <<checkpoints, exceptHook>>

\* The user starts on the next commit.
NextUserCommit ==
    /\ commitRun.state \in {"aborted", "committed", "condensed"}
    /\ commitRun.state = "aborted" \/ commitRun.last.hook \in {"post-commit", "pre-push"}
    /\ commitRun.no < MaxUserCommits
    /\ commitRun' = Drafting(commitRun.no + 1)
    /\ UNCHANGED <<checkpoints, exceptHook>>

(***************************************************************************)
(* Part 11.  The attribution of a user commit                              *)
(*                                                                         *)
(* One file is followed from the base commit B over the prompts and turns  *)
(* of a session to the user commit U.  Its lines are distinct, so a        *)
(* content is the set of its lines and the lines added going from X to Y   *)
(* are Y \ X.  At each prompt the lines the human added since the last     *)
(* snapshot enter the per-prompt ledger; at the end of a turn the worktree *)
(* becomes the shadow snapshot S; the commit computes the attribution      *)
(* record from B, S, U and the ledger.                                     *)
(***************************************************************************)
BaseLines == {"package main", "func oldFunc1() {}", "func oldFunc2() {}", "func oldFunc3() {}"}
FreshLines == {"func agentFunc() {", "// User comment 1"}
FileLines == BaseLines \cup FreshLines

MaxEdits == 4   \* lines added or removed in one behaviour

\* Lines added going B -> S that are still in U and that the ledger does not
\* hold as the human's.
AgentAdd(B, S, U, ledger) == Cardinality(((S \ B) \cap U) \ ledger)

\* A plausible slip: the lines the human removed count as committed lines.
HumanAddWithRemovals(S, U, ledger) ==
    Cardinality(ledger \cap U) + Cardinality(U \ S) + Cardinality(S \ U)

\* The ledger's lines that survived to U, plus the lines added going S -> U.
HumanAdd(S, U, ledger) == Cardinality(ledger \cap U) + Cardinality(U \ S)

\* Lines removed going S -> U.
HumanRem(S, U) == Cardinality(S \ U)

\* round_half_even(10 * 100 * agent / total): the percentage in tenths.
RoundHalfEvenTenths(agent, total) ==
    LET q == (1000 * agent) \div total
        r == (1000 * agent) % total
    IN  IF 2 * r > total THEN q + 1
        ELSE IF 2 * r = total THEN q + (q % 2)
        ELSE q

\* The record: the deletion-only rule, and the percentage otherwise.
\* AgentPercentage is in tenths of a percent.
Attribution(B, S, U, ledger) ==
    LET agent == AgentAdd(B, S, U, ledger)
        human == HumanAdd(S, U, ledger)
    IN  IF agent + human = 0
        THEN [AgentLines |-> agent, HumanAdded |-> human, HumanRemoved |-> HumanRem(S, U),
              TotalCommitted |-> 0, AgentPercentage |-> 0]
        ELSE [AgentLines |-> agent, HumanAdded |-> human, HumanRemoved |-> HumanRem(S, U),
              TotalCommitted |-> agent + human,
              AgentPercentage |-> RoundHalfEvenTenths(agent, agent + human)]

NoAttribution ==
    [AgentLines |-> -1, HumanAdded |-> -1, HumanRemoved |-> -1,
     TotalCommitted |-> -1, AgentPercentage |-> -1]

AttrInit ==
    attrRun = [phase |-> "idle", worktree |-> BaseLines, snapshot |-> BaseLines,
               snapshots |-> 0, ledger |-> {}, edits |-> 0, added |-> FALSE,
               record |-> NoAttribution]

\* One line added to the file or removed from it.
Edit(line) ==
    [attrRun EXCEPT !.worktree = IF line \in @ THEN @ \ {line} ELSE @ \cup {line},
                    !.edits = @ + 1,
                    !.added = @ \/ line \notin attrRun.worktree]

\* The human edits the file between the turns.
HumanEdits ==
    /\ attrRun.phase = "idle"
    /\ attrRun.edits < MaxEdits
    /\ \E line \in FileLines : attrRun' = Edit(line)
    /\ UNCHANGED exceptAttr

\* SimulateUserPromptSubmit: the lines the human added since the last
\* snapshot go to the ledger, and the agent's turn starts.
UserPromptSubmit ==
    /\ attrRun.phase = "idle"
    /\ attrRun' = [attrRun EXCEPT !.phase = "turn",
                                  !.ledger = @ \cup (attrRun.worktree \ attrRun.snapshot)]
    /\ UNCHANGED exceptAttr

\* The agent edits the file in its turn.
AgentEdits ==
    /\ attrRun.phase = "turn"
    /\ attrRun.edits < MaxEdits
    /\ \E line \in FileLines : attrRun' = Edit(line)
    /\ UNCHANGED exceptAttr

\* SimulateStop: the worktree becomes the shadow snapshot.
SimulateStop ==
    /\ attrRun.phase = "turn"
    /\ attrRun' = [attrRun EXCEPT !.phase = "idle", !.snapshot = attrRun.worktree,
                                  !.snapshots = 1]
    /\ UNCHANGED exceptAttr

\* GitCommitWithShadowHooks: the user commits the worktree and condensation
\* writes the record.
GitCommitWithShadowHooks ==
    /\ attrRun.phase = "idle"
    /\ attrRun.snapshots = 1
    /\ attrRun' = [attrRun EXCEPT
                     !.phase = "committed",
                     !.record = Attribution(BaseLines, attrRun.snapshot,
                                            attrRun.worktree, attrRun.ledger)]
    /\ UNCHANGED exceptAttr

(***************************************************************************)
(* Specifications: one per part; the variables of the other parts rest.    *)
(***************************************************************************)
NameRest == branchName = <<>> /\ verdict = "unset"
RepoRest == refs = {} /\ call = NoCall
SessRest == /\ shadow = <<>>
            /\ stateFiles = {}
            /\ lock = Free
            /\ inv = [p \in Procs |-> Idle]

\* Any repository will do while no resume runs.
ResumeRest ==
    /\ resumeRepo = [head |-> Master, dirty |-> FALSE, local |-> {Master},
                     remote |-> {}, tips |-> [b \in ResumeBranches |-> NoCheckpoint],
                     localMeta |-> NoBranch, remoteMeta |-> NoBranch,
                     logs |-> [a \in {EntireSessionID.token} |-> Absent]]
    /\ resumeCall = NoResumeCall

MsgRest ==
    /\ msgInput = [message |-> <<>>, trailers |-> NilMap, iteration |-> <<>>]
    /\ fullMessage = NoMessage

\* Any repository will do while no summarize function runs.
SumRest ==
    /\ sumRepo = [refs |-> [b \in SumBranchNames |->
                              IF b = MainBranch THEN <<BaseCommit>> ELSE <<>>],
                  objects |-> {BaseCommit},
                  head |-> MainBranch, dirty |-> FALSE, remote |-> {}]
    /\ sumCall = NoSumCall

PromptRest ==
    promptRun = NoPromptRun(<<>>)

IgnoreRest ==
    /\ gitignore = NoFile
    /\ ignoreRun = NoIgnoreRun

StartRest ==
    /\ startRepo = [local |-> [b \in StartBranches |-> IF b = StartMain THEN "c0" ELSE NoHash],
                    origin |-> [b \in StartBranches |-> NoHash],
                    head |-> StartMain, dirty |-> FALSE, worktrees |-> {}, files |-> {},
                    dirs |-> {}, templates |-> {}, gitignore |-> NoFile]
    /\ startRun = NoStartRun

HookRest ==
    /\ commitRun = Drafting(1)
    /\ checkpoints = {}

AttrRest ==
    /\ attrRun = [phase |-> "idle", worktree |-> BaseLines, snapshot |-> BaseLines,
                  snapshots |-> 0, ledger |-> {}, edits |-> 0, added |-> FALSE,
                  record |-> NoAttribution]

NameNext == CallIsShadowBranch

RepoNext ==
    \/ CallListShadowBranches
    \/ CallDeleteShadowBranches
    \/ CallRunClean
    \/ Return

SessNext ==
    \/ \E p \in Procs : Start(p)
    \/ \E p \in Procs : Acquire(p)
    \/ \E p \in Procs : ReadBranch(p)
    \/ \E p \in Procs : Decide(p)
    \/ \E p \in Procs : Finish(p)
    \/ DeleteStateFiles

ResumeNext ==
    \/ CallRunResume
    \/ ReturnResume

MsgNext == CallBuildFullMessage

SumNext ==
    \/ CallValidateSummarize
    \/ CallCreateSquashedBranch
    \/ CallRunSummarize

PromptNext ==
    \/ CallGenerateCommitMessage
    \/ StripPrefix
    \/ LeaveLoop

IgnoreNext ==
    CallEnsureWorktreesInGitignore

StartNext ==
    CallRunStart

HookNext ==
    \/ Stage
    \/ PrepareCommitMsg
    \/ CommitMsg
    \/ PostCommit
    \/ PrePush
    \/ NextUserCommit

AttrNext ==
    \/ HumanEdits
    \/ UserPromptSubmit
    \/ AgentEdits
    \/ SimulateStop
    \/ GitCommitWithShadowHooks

InitName == NameInit /\ RepoRest /\ SessRest /\ ResumeRest /\ MsgRest /\ SumRest /\ PromptRest /\ IgnoreRest /\ StartRest /\ HookRest /\ AttrRest
InitRepo == NameRest /\ RepoInit /\ SessRest /\ ResumeRest /\ MsgRest /\ SumRest /\ PromptRest /\ IgnoreRest /\ StartRest /\ HookRest /\ AttrRest
InitSession == NameRest /\ RepoRest /\ SessInit /\ ResumeRest /\ MsgRest /\ SumRest /\ PromptRest /\ IgnoreRest /\ StartRest /\ HookRest /\ AttrRest
InitResume == NameRest /\ RepoRest /\ SessRest /\ ResumeInit /\ MsgRest /\ SumRest /\ PromptRest /\ IgnoreRest /\ StartRest /\ HookRest /\ AttrRest
InitMessage == NameRest /\ RepoRest /\ SessRest /\ ResumeRest /\ MsgInit /\ SumRest /\ PromptRest /\ IgnoreRest /\ StartRest /\ HookRest /\ AttrRest
InitSummarize == NameRest /\ RepoRest /\ SessRest /\ ResumeRest /\ MsgRest /\ SumInit /\ PromptRest /\ IgnoreRest /\ StartRest /\ HookRest /\ AttrRest
InitPrompt == NameRest /\ RepoRest /\ SessRest /\ ResumeRest /\ MsgRest /\ SumRest /\ PromptInit /\ IgnoreRest /\ StartRest /\ HookRest /\ AttrRest
InitGitignore == NameRest /\ RepoRest /\ SessRest /\ ResumeRest /\ MsgRest /\ SumRest /\ PromptRest /\ IgnoreInit /\ StartRest /\ HookRest /\ AttrRest
InitStart == NameRest /\ RepoRest /\ SessRest /\ ResumeRest /\ MsgRest /\ SumRest /\ PromptRest /\ IgnoreRest /\ StartInit /\ HookRest /\ AttrRest
InitHooks == NameRest /\ RepoRest /\ SessRest /\ ResumeRest /\ MsgRest /\ SumRest /\ PromptRest /\ IgnoreRest /\ StartRest /\ HookInit /\ AttrRest
InitAttribution == NameRest /\ RepoRest /\ SessRest /\ ResumeRest /\ MsgRest /\ SumRest /\ PromptRest /\ IgnoreRest /\ StartRest /\ HookRest /\ AttrInit

SpecName == InitName /\ [][NameNext]_vars
SpecRepo == InitRepo /\ [][RepoNext]_vars
SpecSession == InitSession /\ [][SessNext]_vars
SpecResume == InitResume /\ [][ResumeNext]_vars
SpecMessage == InitMessage /\ [][MsgNext]_vars
SpecSummarize == InitSummarize /\ [][SumNext]_vars
SpecPrompt == InitPrompt /\ [][PromptNext]_vars
SpecGitignore == InitGitignore /\ [][IgnoreNext]_vars
SpecStart == InitStart /\ [][StartNext]_vars
SpecHooks == InitHooks /\ [][HookNext]_vars
SpecAttribution == InitAttribution /\ [][AttrNext]_vars

(***************************************************************************)
(* Properties                                                              *)
(***************************************************************************)

\* The shape of a shadow branch name, read off the name itself: "entire/",
\* then at least 7 characters, all of them hex digits, and nothing else; and
\* not the literal entire/sessions.
HasShadowShape(s) ==
    /\ Len(s) >= 7 + 7
    /\ SubSeq(s, 1, 7) = <<"e", "n", "t", "i", "r", "e", "/">>
    /\ \A i \in 8..Len(s) : s[i] \in HexClass
    /\ s # SessionsBranch

HexPartLen(s) == Len(s) - 7

\* C1: once the tip of the shadow branch carries the Entire-Session trailer
\* of session A, every prompt submission or snapshot write by a session
\* B # A ends in a session ID conflict and leaves the branch as it is,
\* whatever the state files are and however many checkpoints A has written.
DecidesNow(p) == inv[p].pc = "read" /\ inv'[p].pc = "done"
C1_OtherSessionConflicts ==
    [][\A p \in Procs :
         (/\ DecidesNow(p)
          /\ shadow # <<>>
          /\ TipOf(shadow).session \notin {NoTrailer, inv[p].sess})
         => (inv'[p].result = "SessionIdConflict" /\ shadow' = shadow)]_vars

\* C1 witness: session B was refused on a branch holding three commits of
\* session A while no session state file exists.
C1_Witness ==
    /\ stateFiles = {}
    /\ Len(shadow) >= 3
    /\ \E p \in Procs :
         /\ inv[p].pc = "done"
         /\ inv[p].result = "SessionIdConflict"
         /\ \A i \in DOMAIN shadow :
              shadow[i].session \notin {NoTrailer, inv[p].sess}

\* C2: reservations are serialised by the lock: only the lock holder is
\* between reading and writing the branch; a branch that began with a session
\* trailer carries that one session on every commit; and a finished prompt
\* submission succeeded exactly when its session is that owner, the others
\* having ended in a session ID conflict.
C2_OneReserverWins ==
    /\ \A p \in Procs : inv[p].pc \in {"locked", "read"} => lock = p
    /\ (shadow # <<>> /\ shadow[1].session # NoTrailer) =>
         /\ \A i \in DOMAIN shadow : shadow[i].session = shadow[1].session
         /\ \A p \in Procs :
              (inv[p].pc = "done" /\ inv[p].op = "prompt") =>
                /\ inv[p].result \in {"ok", "SessionIdConflict"}
                /\ inv[p].result = "ok" <=> inv[p].sess = shadow[1].session

\* C2 witness: two prompt submissions of different sessions have finished on
\* the branch one of them created; one succeeded, the other was refused.
C2_Witness ==
    \E p, q \in Procs :
        /\ inv[p].pc = "done" /\ inv[q].pc = "done"
        /\ inv[p].op = "prompt" /\ inv[q].op = "prompt"
        /\ inv[p].sess # inv[q].sess
        /\ inv[p].result = "ok" /\ inv[q].result = "SessionIdConflict"
        /\ shadow = <<Commit(inv[p].sess)>>

\* C3: a prompt submission by the session that made every commit of the
\* shadow branch succeeds and leaves the branch as it is; on a base without
\* shadow branch it succeeds and creates the branch with its trailer.
C3_SameSessionIdempotent ==
    [][\A p \in Procs :
         (/\ DecidesNow(p)
          /\ inv[p].op = "prompt"
          /\ \A i \in DOMAIN shadow : shadow[i].session = inv[p].sess)
         => /\ inv'[p].result = "ok"
            /\ shadow' = IF shadow = <<>> THEN <<Commit(inv[p].sess)>> ELSE shadow]_vars

\* C3 witness: a prompt submission succeeded on a branch holding two or more
\* commits, all of its own session.
C3_Witness ==
    \E p \in Procs :
        /\ inv[p].pc = "done" /\ inv[p].op = "prompt" /\ inv[p].result = "ok"
        /\ Len(shadow) >= 2
        /\ \A i \in DOMAIN shadow : shadow[i].session = inv[p].sess

\* C4: a prompt submission on a shadow branch whose tip has no Entire-Session
\* trailer succeeds, for any session id, and leaves the branch as it is.
C4_LegacyNoConflict ==
    [][\A p \in Procs :
         (/\ DecidesNow(p)
          /\ inv[p].op = "prompt"
          /\ shadow # <<>>
          /\ TipOf(shadow).session = NoTrailer)
         => (inv'[p].result = "ok" /\ shadow' = shadow)]_vars

\* C4 witness: a prompt submission succeeded on the branch without trailer.
C4_Witness ==
    \E p \in Procs :
        /\ inv[p].pc = "done" /\ inv[p].op = "prompt" /\ inv[p].result = "ok"
        /\ shadow = ShadowBranchWithoutTrailer

\* C5: IsShadowBranch(s) is true exactly when s is "entire/" followed by at
\* least 7 hex characters and nothing else and is not entire/sessions; the
\* names the tests list as rejected are rejected.
C5_IsShadowBranchIff ==
    verdict # "unset" =>
        /\ verdict = "true" <=> HasShadowShape(branchName)
        /\ branchName \in RejectedTestNames => verdict = "false"

\* C5 witness: the mixed-case name entire/AbCdEf1 was accepted.
C5_Witness ==
    /\ verdict = "true"
    /\ branchName = EntirePrefix \o <<"A", "b", "C", "d", "E", "f", "1">>

\* C6 as stated: an accepted name has between 7 and 40 hex characters after
\* "entire/".
C6_HexPartAtMost40 ==
    verdict = "true" => (HexPartLen(branchName) >= 7 /\ HexPartLen(branchName) <= 40)

\* C6 amended: the hex part has a lower bound only: an accepted name has at
\* least 7 hex characters, and a name of "entire/" and more than 40 hex
\* characters is accepted as well.
C6_HexPartUnbounded ==
    verdict # "unset" =>
        /\ verdict = "true" => HexPartLen(branchName) >= 7
        /\ (/\ HasPrefix(branchName, EntirePrefix)
            /\ HexPartLen(branchName) > 40
            /\ \A i \in 8..Len(branchName) : branchName[i] \in HexClass)
           => verdict = "true"

\* C6 witness: a name with more than 40 hex characters was accepted.
C6_Witness == verdict = "true" /\ HexPartLen(branchName) > 40

BranchNamesOf(R) == {TrimPrefix(r.name, RefsHeads) : r \in {x \in R : IsBranch(x.name)}}

\* C7: ListShadowBranches returns a non-nil sequence holding, each once, exactly
\* the refs/heads/ branches of shadow shape: no tag, no remote reference and
\* never entire/sessions.
C7_ListExactlyShadowBranches ==
    (call.op = "list" /\ call.err = "") =>
        /\ ~call.listed.isNil
        /\ Range(call.listed.elems) = {n \in BranchNamesOf(call.before) : HasShadowShape(n)}
        /\ Len(call.listed.elems) = Cardinality(Range(call.listed.elems))
        /\ SessionsBranch \notin Range(call.listed.elems)

\* C7 witness: two shadow branches were listed from a repository that also
\* holds entire/sessions and a tag named like a shadow branch.
C7_Witness ==
    /\ call.op = "list"
    /\ Len(call.listed.elems) = 2
    /\ \E r \in call.before : r.name = RefsHeads \o SessionsBranch
    /\ \E r \in call.before : r.name = RefsTags \o BrAbc

RefNames(R) == {r.name : r \in R}
Distinct(s) == \A i, j \in DOMAIN s : s[i] = s[j] => i = j

\* s is an interleaving of a and b that keeps the order of both.
RECURSIVE IsMerge(_, _, _)
IsMerge(s, a, b) ==
    IF s = <<>> THEN a = <<>> /\ b = <<>>
    ELSE \/ a # <<>> /\ Head(a) = Head(s) /\ IsMerge(Tail(s), Tail(a), b)
         \/ b # <<>> /\ Head(b) = Head(s) /\ IsMerge(Tail(s), a, Tail(b))

\* What C8 says besides "exactly one": deleted names are gone, names that did
\* not exist are failed, branches not named are untouched.
DeleteFrame ==
    /\ \A n \in Range(call.deleted.elems) : NewBranchReferenceName(n) \notin RefNames(refs)
    /\ \A n \in Range(call.input) :
         NewBranchReferenceName(n) \notin RefNames(call.before)
           => n \in Range(call.failed.elems) /\ n \notin Range(call.deleted.elems)
    /\ refs \subseteq call.before
    /\ \A r \in call.before :
         (\A n \in Range(call.input) : r.name # NewBranchReferenceName(n)) => r \in refs

\* C8 as stated: every input name is in exactly one of deleted and failed.
C8_EveryNameInExactlyOne ==
    (call.op = "delete" /\ call.err = "") =>
        /\ \A n \in Range(call.input) :
             (n \in Range(call.deleted.elems)) # (n \in Range(call.failed.elems))
        /\ DeleteFrame

\* C8 amended: every element of the input goes to exactly one of deleted and
\* failed, both in input order, whatever fails before it; names given once
\* are in exactly one of the two; deleted names are gone, names that did not
\* exist are failed, branches not named are untouched.
C8_EveryElementInExactlyOne ==
    (call.op = "delete" /\ call.err = "") =>
        /\ IsMerge(call.input, call.deleted.elems, call.failed.elems)
        /\ Distinct(call.input) =>
             Range(call.deleted.elems) \cap Range(call.failed.elems) = {}
        /\ DeleteFrame

\* C8 witness: the first name failed (it did not exist) and the second was
\* deleted after it.
C8_Witness ==
    /\ call.op = "delete"
    /\ call.input = <<BrMissing, BrAbc>>
    /\ call.failed.elems = <<BrMissing>>
    /\ call.deleted.elems = <<BrAbc>>

\* C9 as stated: when the repository can be opened, neither deleted nor
\* failed is nil.
C9_SlicesNeverNil ==
    (call.op = "delete" /\ call.err = "") =>
        (~call.deleted.isNil /\ ~call.failed.isNil)

ListedNames == Range(call.listed.elems)
PrintedBranches == {l.name : l \in {x \in Range(call.out) : x.kind = "branch"}}
StillListed ==
    UNION {Range(ListShadowBranches(order, "none").branches.elems) : order \in Orders(refs)}

\* What C10 says of clean without --force: the listed branches are printed,
\* the command succeeds and no reference changes.
PreviewIsPure ==
    (call.op = "clean" /\ ~call.force /\ ~call.listed.isNil) =>
        /\ call.err = ""
        /\ refs = call.before
        /\ ListedNames # {} => PrintedBranches = ListedNames

\* C10 as stated: the preview is pure, and clean --force deletes every listed
\* shadow branch, so that ListShadowBranches returns none of them afterwards.
C10_ForceDeletesEveryListed ==
    /\ PreviewIsPure
    /\ (call.op = "clean" /\ call.force /\ ~call.listed.isNil) =>
         StillListed \cap ListedNames = {}

\* C10 amended: the preview is pure; clean --force that returns success has
\* deleted every listed shadow branch, so that ListShadowBranches returns none
\* of them afterwards; when a listed branch is still there the command
\* returned an error: either the repository could not be opened for the
\* deletion and nothing changed, or the branch was reported as failed.
C10_ForceDeletesUnlessFailed ==
    /\ PreviewIsPure
    /\ (call.op = "clean" /\ call.force /\ ~call.listed.isNil) =>
         /\ call.err = "" => StillListed \cap ListedNames = {}
         /\ call.err = "failed to delete shadow branches" =>
              (refs = call.before /\ call.out = <<>>)
         /\ (StillListed \cap ListedNames # {}
                /\ call.err # "failed to delete shadow branches") =>
              /\ call.err = "failed to delete branches"
              /\ \A n \in StillListed \cap ListedNames :
                   \E i \in DOMAIN call.out :
                     /\ call.out[i] = Line("branch", 0, n)
                     /\ \E j \in 1..(i - 1) : call.out[j].kind = "Failed to delete branches:"

\* C10 witness: clean --force succeeded on two shadow branches and none is
\* left.
C10_Witness ==
    /\ call.op = "clean" /\ call.force /\ call.err = ""
    /\ ListedNames = {BrAbc, BrDef}
    /\ StillListed = {}

\* A reference that clean must keep: anything that is not a refs/heads/
\* branch of shadow shape.
IsPermanent(r) == ~(IsBranch(r.name) /\ HasShadowShape(TrimPrefix(r.name, RefsHeads)))

\* C11: every run of clean, with or without --force, whatever ran before it,
\* leaves entire/sessions and every other reference that is not a shadow
\* branch in place and on the same commit, and creates no reference.
C11_CleanKeepsPermanentRefs ==
    [][call'.op = "clean" =>
         /\ \A r \in refs : IsPermanent(r) => r \in refs'
         /\ refs' \subseteq refs]_vars

\* C11 witness: clean --force removed the shadow branch entire/abc1234, and
\* entire/sessions and the tag named entire/abc1234 are still on their commits.
C11_Witness ==
    /\ call.op = "clean" /\ call.force /\ call.err = ""
    /\ BrAbc \in ListedNames
    /\ [name |-> RefsHeads \o BrAbc, hash |-> "c0"] \notin refs
    /\ [name |-> RefsHeads \o SessionsBranch, hash |-> "c2"] \in refs
    /\ [name |-> RefsHeads \o BrDef, hash |-> "c1"] \notin call.before
    /\ [name |-> RefsTags \o BrAbc, hash |-> "c0"] \in refs

Ran == resumeCall.op = "resume"
Printed(kind) == \E i \in DOMAIN resumeCall.out : resumeCall.out[i].kind = kind
Performed(op) == \E i \in DOMAIN resumeCall.ops : resumeCall.ops[i] = op
Refusal == "you have uncommitted changes. Please commit or stash them first"
LogsUntouched ==
    /\ resumeRepo.logs = resumeCall.before.logs
    /\ ~Performed("writeSession")
    /\ ~Printed("Session restored to:")

\* The run read the trailer of the tip it is on; TipTrailer is what it found.
ReadTip == Ran /\ Performed("readTrailer")
TipTrailer == resumeCall.before.tips[resumeRepo.head]
InLocalMetadata ==
    resumeCall.before.localMeta.exists /\ TipTrailer \in resumeCall.before.localMeta.shards
InRemoteMetadata ==
    resumeCall.before.remoteMeta.exists /\ TipTrailer \in resumeCall.before.remoteMeta.shards

\* C12 as stated: with uncommitted changes every run of resume returns an
\* error and performs no checkout, no fetch, no trailer read and no write.
C12_DirtyAlwaysRefused ==
    (Ran /\ resumeCall.before.dirty) =>
        /\ resumeCall.err # ""
        /\ resumeCall.ops = <<>>
        /\ resumeRepo = resumeCall.before

\* C12 amended: with uncommitted changes resume refuses when the target is a
\* local branch other than the current one: it returns an error and performs
\* no checkout, no fetch, no trailer read and no write.  When the target is
\* the current branch no check is made and the trailer is read; when the
\* target is only on origin runResume makes no check either and goes on to
\* the fetch once the user has agreed.
C12_DirtyRefusedBeforeLocalCheckout ==
    (Ran /\ resumeCall.before.dirty) =>
        LET b == resumeCall.before
            onIt == b.head = resumeCall.branch /\ resumeCall.fault # "currentBranch"
        IN  /\ (~onIt /\ resumeCall.branch \in b.local) =>
                 /\ resumeCall.err # ""
                 /\ resumeCall.fault \notin {"existsLocally", "hasChanges"}
                      => resumeCall.err = Refusal
                 /\ resumeCall.ops = <<>>
                 /\ resumeCall.out = <<>>
                 /\ resumeRepo = b
            /\ (onIt /\ resumeCall.fault \notin {"open", "head", "commit"}) =>
                 /\ Performed("readTrailer")
                 /\ resumeCall.err # Refusal
            /\ (~onIt /\ resumeCall.branch \notin b.local) =>
                 /\ resumeCall.err # Refusal
                 /\ (resumeCall.branch \in b.remote /\ resumeCall.confirm
                       /\ resumeCall.fault \notin {"existsLocally", "existsOnRemote", "prompt"})
                      => Printed("Fetching branch from origin...")

\* C12 witness: resume of another local branch was refused on a dirty worktree.
C12_Witness ==
    /\ Ran /\ resumeCall.before.dirty
    /\ resumeCall.branch \in resumeCall.before.local
    /\ resumeCall.branch # resumeCall.before.head
    /\ resumeCall.err = Refusal
    /\ resumeRepo.head = resumeCall.before.head

\* C13: when the session log file of the session named by the committed
\* record already exists, resume leaves it as it is, does not print "Session
\* restored", and prints the session id and the resume command with success;
\* no run of resume changes a session log that exists.
C13_ExistingLogUntouched ==
    (Ran /\ resumeCall.before.logs[EntireSessionID.token] # Absent) =>
        /\ LogsUntouched
        /\ (ReadTip /\ TipTrailer # NoCheckpoint /\ InLocalMetadata
              /\ resumeCall.fault \notin {"agent", "getwd", "sessionDir"}) =>
             /\ resumeCall.err = ""
             /\ Printed("Session:")
             /\ resumeCall.out[Len(resumeCall.out)].kind = "command"
             /\ resumeCall.out[Len(resumeCall.out)].arg =
                  FormatResumeCommand(EntireSessionID.token)

\* C13 witness: resume switched to a branch whose session log existed and
\* printed the session id.
C13_Witness ==
    /\ ReadTip /\ Performed("checkout")
    /\ resumeCall.before.logs[EntireSessionID.token] = ExistingLog
    /\ resumeRepo.logs[EntireSessionID.token] = ExistingLog
    /\ Printed("Session:")
    /\ resumeCall.err = ""

\* C14: when the tip carries an Entire-Checkpoint trailer whose shard is in
\* neither the local nor the remote metadata branch (or neither branch
\* exists), resume returns success on the requested branch, prints an
\* informational message, prints no "Session:" line and writes no session log.
C14_MissingMetadataInformational ==
    (ReadTip /\ TipTrailer # NoCheckpoint /\ ~InLocalMetadata /\ ~InRemoteMetadata) =>
        /\ resumeCall.err = ""
        /\ resumeRepo.head = resumeCall.branch
        /\ Printed("found in commit but session metadata not available")
        /\ ~Printed("Session:")
        /\ LogsUntouched

\* C14 witness: resume switched to a branch whose checkpoint is missing from
\* an existing local metadata branch and from origin.
C14_Witness ==
    /\ ReadTip /\ TipTrailer # NoCheckpoint
    /\ resumeCall.before.head # resumeCall.branch
    /\ resumeRepo.head = resumeCall.branch
    /\ resumeCall.before.localMeta.exists /\ ~InLocalMetadata /\ ~InRemoteMetadata
    /\ resumeCall.err = "" /\ ~Printed("Session:")

\* C15 as stated: a record absent locally but present in the remote copy is
\* loaded from the remote copy and the session log is restored from it.
C15_RemoteRecordRestores ==
    (ReadTip /\ TipTrailer # NoCheckpoint /\ ~InLocalMetadata /\ InRemoteMetadata
       /\ resumeCall.fault = "none"
       /\ resumeCall.before.logs[EntireSessionID.token] = Absent) =>
        /\ resumeRepo.logs[EntireSessionID.token] = SessionLogOf(TipTrailer)
        /\ Printed("Session:")

\* C15 amended: the local metadata branch is looked up first and, when it
\* holds the record, the remote copy plays no part and the session log is
\* restored from the local record; when the record is absent locally the
\* remote copy is only inspected: if it holds the record resume prints that
\* the metadata exists on origin and how to fetch it, restores nothing and
\* returns success; if not, it prints that the metadata is not available.
C15_RemoteRecordOnlyReported ==
    (ReadTip /\ TipTrailer # NoCheckpoint) =>
        /\ InLocalMetadata =>
             /\ ~Printed("found in commit but session metadata not available locally")
             /\ ~Printed("found in commit but session metadata not available")
             /\ (resumeCall.fault = "none"
                   /\ resumeCall.before.logs[EntireSessionID.token] = Absent) =>
                  /\ resumeRepo.logs[EntireSessionID.token] = SessionLogOf(TipTrailer)
                  /\ Printed("Session:")
        /\ (~InLocalMetadata /\ InRemoteMetadata) =>
             /\ resumeCall.err = ""
             /\ Printed("found in commit but session metadata not available locally")
             /\ Printed("The metadata exists on origin. To fetch it, run:")
             /\ ~Printed("Session:")
             /\ LogsUntouched
        /\ (~InLocalMetadata /\ ~InRemoteMetadata) =>
             Printed("found in commit but session metadata not available")

\* C15 witness: the record was on origin only and resume printed how to fetch
\* it, the session log still being absent.
C15_Witness ==
    /\ ReadTip /\ TipTrailer # NoCheckpoint
    /\ ~InLocalMetadata /\ InRemoteMetadata
    /\ Printed("The metadata exists on origin. To fetch it, run:")
    /\ resumeRepo.logs[EntireSessionID.token] = Absent

\* C16: on a branch whose tip has no Entire-Checkpoint trailer resume ends
\* with success on the requested branch, any checkout having been done before
\* the trailer was read; it prints "No Entire checkpoint found" and writes no
\* session log.
C16_NoTrailerInformational ==
    (ReadTip /\ TipTrailer = NoCheckpoint) =>
        /\ resumeCall.err = ""
        /\ resumeRepo.head = resumeCall.branch
        /\ resumeCall.ops[Len(resumeCall.ops)] = "readTrailer"
        /\ Printed("No Entire checkpoint found for the last commit on branch")
        /\ ~Printed("Session:")
        /\ LogsUntouched

\* C16 witness: resume checked the branch out, then found no trailer.
C16_Witness ==
    /\ Ran /\ resumeCall.ops = <<"checkout", "readTrailer">>
    /\ TipTrailer = NoCheckpoint
    /\ resumeCall.before.head # resumeCall.branch
    /\ resumeRepo.head = resumeCall.branch
    /\ resumeCall.err = ""

\* The four conditions of C17, read off the repository.
NotOnDefault(w) == w.head \notin {"main", "master"}
CommitsAhead(w, target) ==
    /\ History(HeadCommit(w)) \cap History(TipOfBranch(w, target)) # {}
    /\ History(HeadCommit(w)) \ History(TipOfBranch(w, target)) # {}
MaySummarize(w, target) ==
    /\ NotOnDefault(w)
    /\ w.refs[target] # <<>>
    /\ ~w.dirty
    /\ CommitsAhead(w, target)

\* C17: ValidateSummarize(target, false) returns nil exactly when the current
\* branch is not the default branch, the target exists, the worktree is clean
\* and the current branch has a commit after its merge base with the target;
\* whatever it returns, no reference has changed.
C17_ValidateIffFourConditions ==
    sumCall.op = "validate" =>
        /\ sumRepo = sumCall.before
        /\ sumCall.err = "" => MaySummarize(sumCall.before, sumCall.target)
        /\ sumCall.fault = "none" =>
             (sumCall.err = "" <=> MaySummarize(sumCall.before, sumCall.target))

\* C17 witness: validation succeeded on the feature branch, three commits
\* ahead of a target that has moved on.
C17_Witness ==
    /\ sumCall.op = "validate" /\ sumCall.err = ""
    /\ sumRepo.head = FeatureBranch
    /\ HeadCommit(sumRepo) = FeatureChain(BaseCommit, 3)
    /\ TipOfBranch(sumRepo, MainBranch) = MainAhead

\* The keys of a map in ascending order, each once.
AscendingKeys(m) ==
    CHOOSE o \in Orders(DOMAIN m.entries) :
        \A i, j \in DOMAIN o : i < j => StringLess(o[i], o[j])
RECURSIVE TrailerLines(_, _)
TrailerLines(keys, m) ==
    IF keys = <<>> THEN <<>>
    ELSE (<<"\n">> \o Head(keys) \o <<":", " ">> \o m.entries[Head(keys)])
             \o TrailerLines(Tail(keys), m)

\* C18: the commit message is the message body, one blank line, then one
\* "Key: Value" line per entry of the trailer map with the keys in ascending
\* order, whatever the map iteration order; with an empty or nil map it is
\* the body unchanged.
C18_TrailersInKeyOrder ==
    fullMessage # NoMessage =>
        fullMessage =
            IF DOMAIN msgInput.trailers.entries = {} THEN msgInput.message
            ELSE msgInput.message \o <<"\n">>
                     \o TrailerLines(AscendingKeys(msgInput.trailers), msgInput.trailers)

\* C18 witness: a message was built from a map that yielded Zebra, Middle,
\* Alpha in this order.
C18_Witness ==
    /\ fullMessage # NoMessage
    /\ msgInput.iteration = <<KeyZebra, KeyMiddle, KeyAlpha>>
    /\ Len(fullMessage) > Len(msgInput.message)

Squashed == sumCall.op \in {"squash", "summarize"} /\ sumCall.err = ""
SourceTipBefore == TipOfBranch(sumCall.before, sumCall.source)
TargetTipBefore == TipOfBranch(sumCall.before, sumCall.target)

\* c is the merge base of a and b: common to both histories and reaching
\* every common commit.
IsMergeBase(c, a, b) ==
    /\ c \in History(a) \cap History(b)
    /\ History(a) \cap History(b) \subseteq History(c)

\* C19: after a successful CreateSquashedBranch (called directly or by
\* runSummarize) the new branch points to a commit whose only parent is the
\* merge base of source and target and whose tree is the tree of the source
\* tip, so that one commit lies between the merge base and the new tip.
C19_OneCommitOnMergeBase ==
    Squashed =>
        LET tip == TipOfBranch(sumRepo, sumCall.new)
        IN  /\ Len(tip.parents) = 1
            /\ IsMergeBase(tip.parents[1], SourceTipBefore, TargetTipBefore)
            /\ tip.tree = SourceTipBefore.tree
            /\ CountCommitsBetween(tip.parents[1], tip) = 1
            /\ History(tip) = {tip} \cup History(tip.parents[1])

\* C19 witness: three feature commits were squashed into entire/pr/feature
\* on top of the base commit while main has moved on.
C19_Witness ==
    /\ Squashed /\ sumCall.new = SummaryBranch
    /\ SourceTipBefore = FeatureChain(BaseCommit, 3)
    /\ TargetTipBefore = MainAhead
    /\ TipOfBranch(sumRepo, SummaryBranch).parents = <<BaseCommit>>

\* C20 as stated: after runSummarize or CreateSquashedBranch, successful or
\* not, the source branch, the target branch and HEAD are where they were and
\* only the summary branch may have changed.
C20_OriginalBranchesUnchanged ==
    sumCall.op \in {"squash", "summarize"} =>
        /\ sumRepo.refs[sumCall.source] = sumCall.before.refs[sumCall.source]
        /\ sumRepo.refs[sumCall.target] = sumCall.before.refs[sumCall.target]
        /\ sumRepo.head = sumCall.before.head
        /\ HeadCommit(sumRepo) = HeadCommit(sumCall.before)
        /\ \A b \in SumBranchNames :
             sumRepo.refs[b] # sumCall.before.refs[b] => b = sumCall.new

\* Every reference points to a commit the object store holds, with its history.
FullyLinked(w) ==
    \A b \in SumBranchNames : w.refs[b] # <<>> => History(w.refs[b][1]) \subseteq w.objects

\* C23: CreateSquashedBranch writes the branch reference last: a call that
\* fails at any step leaves every reference as it was, and after any call,
\* failed or not, every reference points to a stored commit.
C23_ReferenceWrittenLast ==
    sumCall.op = "squash" =>
        /\ FullyLinked(sumRepo)
        /\ sumCall.err # "" => sumRepo.refs = sumCall.before.refs
        /\ sumCall.err = "" =>
             /\ sumCall.fault = "none"
             /\ TipOfBranch(sumRepo, sumCall.new) \in sumRepo.objects

\* C23 witness: storing the commit failed on the way to a new branch, and
\* the branch does not exist.
C23_Witness ==
    /\ sumCall.op = "squash" /\ sumCall.fault = "SetEncodedObject:210"
    /\ sumCall.err = "failed to store commit"
    /\ sumCall.new = TestBranch /\ sumRepo.refs[TestBranch] = <<>>
    /\ SourceTipBefore = FeatureChain(BaseCommit, 2)

\* C28: runSummarize without --force returns an error and writes nothing when
\* the summary branch exists on origin; the remote check is what stops it
\* only without --force and only after ValidateSummarize has succeeded.
C28_RemoteSummaryNotReplaced ==
    sumCall.op = "summarize" =>
        /\ (~sumCall.force /\ sumCall.new \in sumCall.before.remote) =>
               sumCall.err # "" /\ sumRepo = sumCall.before
        /\ sumCall.err = "summary branch exists on remote. Use --force to overwrite" =>
               /\ ~sumCall.force
               /\ sumCall.new \in sumCall.before.remote
               /\ MaySummarize(sumCall.before, sumCall.target)
        /\ (sumCall.force /\ sumCall.fault = "none"
               /\ MaySummarize(sumCall.before, sumCall.target)) => sumCall.err = ""

\* C28 witness: the default summary branch of feature is on origin and the
\* command, run without --force on a branch ready to be summarized, refused.
C28_Witness ==
    /\ sumCall.op = "summarize" /\ ~sumCall.force
    /\ sumCall.new = SummaryBranch /\ SummaryBranch \in sumCall.before.remote
    /\ sumCall.err = "summary branch exists on remote. Use --force to overwrite"
    /\ sumCall.before.head = FeatureBranch

\* The branch names printed under the heading `kind`, up to the next heading.
PrintedUnder(kind) ==
    {call.out[i].name :
        i \in {k \in DOMAIN call.out :
                 /\ call.out[k].kind = "branch"
                 /\ \E j \in 1..(k - 1) :
                      /\ call.out[j].kind = kind
                      /\ \A m \in (j + 1)..(k - 1) : call.out[m].kind = "branch"}}
HeadingCount(kind) ==
    {call.out[i].n : i \in {k \in DOMAIN call.out : call.out[k].kind = kind}}
ListedGone == ListedNames \ StillListed
ListedLeft == ListedNames \cap StillListed

\* C29: clean --force that got as far as deleting reports every listed
\* branch once: those it deleted are gone and printed as deleted, those it
\* could not delete are still there and printed as failed, whatever the
\* others did; it returns an error when one failed and success exactly when
\* none did, also when there was no shadow branch at all.
C29_PartialFailureReported ==
    (call.op = "clean" /\ call.force /\ ~call.listed.isNil
        /\ call.err # "failed to delete shadow branches") =>
        /\ PrintedUnder("Deleted shadow branches:") = ListedGone
        /\ PrintedUnder("Failed to delete branches:") = ListedLeft
        /\ HeadingCount("Deleted shadow branches:")
             = IF ListedGone = {} THEN {} ELSE {Cardinality(ListedGone)}
        /\ HeadingCount("Failed to delete branches:")
             = IF ListedLeft = {} THEN {} ELSE {Cardinality(ListedLeft)}
        /\ refs = {r \in call.before : TrimPrefix(r.name, RefsHeads) \notin ListedGone
                                          \/ ~IsBranch(r.name)}
        /\ call.err = "" <=> ListedLeft = {}
        /\ call.err # "" => call.err = "failed to delete branches"
        /\ ListedNames = {} =>
             call.out = <<Line("No shadow branches to clean up.", 0, <<>>)>>

\* C29 witness: of two listed shadow branches one was deleted and one could
\* not be; both are reported and the command returned an error.
C29_Witness ==
    /\ call.op = "clean" /\ call.force
    /\ call.err = "failed to delete branches"
    /\ ListedNames = {BrAbc, BrDef}
    /\ Cardinality(ListedGone) = 1 /\ Cardinality(ListedLeft) = 1
    /\ PrintedUnder("Deleted shadow branches:") = ListedGone

PromptDone == promptRun.pc = "done"
FromPrompt == PromptDone /\ promptRun.message = promptRun.cleaned

\* C30 as stated: the loop ends, the description is at most 72 long with no
\* white space at either end, and generateCommitMessage never returns the
\* empty string.
C30_DescriptionBounded ==
    /\ PromptDone =>
         /\ promptRun.message # <<>>
         /\ Len(promptRun.cleaned) <= DescriptionLimit
         /\ promptRun.cleaned # <<>> =>
              /\ promptRun.cleaned[1] \notin WhiteSpace
              /\ promptRun.cleaned[Len(promptRun.cleaned)] \notin WhiteSpace
    /\ promptRun.pc = "loop" => Len(promptRun.cleaned) <= Len(promptRun.prompt)

\* The lines of a text: what stands between its newlines.
RECURSIVE LinesOf(_, _)
LinesOf(text, line) ==
    IF text = <<>> THEN <<line>>
    ELSE IF Head(text) = "\n" THEN <<line>> \o LinesOf(Tail(text), <<>>)
    ELSE LinesOf(Tail(text), Append(line, Head(text)))
WorktreesLines == {DotWorktrees, DotWorktrees \o <<"/">>, DotWorktrees \o <<"/", "*">>}
EntryLines(text) ==
    {i \in DOMAIN LinesOf(text, <<>>) : LinesOf(text, <<>>)[i] \in WorktreesLines}
EnsureSucceeded == ignoreRun.calls > 0 /\ ignoreRun.err = ""

\* C24: after a successful call .gitignore exists and has a .worktrees line;
\* a file that had a line .worktrees, .worktrees/ or .worktrees/* is left as
\* it was; any other keeps its bytes as a prefix and gains exactly one line
\* .worktrees at its end; a call after a successful call changes nothing.
C24_GitignoreIdempotent ==
    /\ EnsureSucceeded =>
         /\ gitignore.exists
         /\ EntryLines(gitignore.content) # {}
         /\ EntryLines(ignoreRun.before.content) # {} => gitignore = ignoreRun.before
         /\ EntryLines(ignoreRun.before.content) = {} =>
              /\ HasPrefix(gitignore.content, ignoreRun.before.content)
              /\ Cardinality(EntryLines(gitignore.content)) = 1
              /\ TrimPrefix(gitignore.content, ignoreRun.before.content)
                   \in {DotWorktrees \o <<"\n">>, <<"\n">> \o DotWorktrees \o <<"\n">>}
    /\ (ignoreRun.okBefore \/ ignoreRun.err # "") => gitignore = ignoreRun.before

\* C24 witness: the second call found the line the first call had appended
\* to a file without a newline at its end, and left the file alone.
C24_Witness ==
    /\ ignoreRun.calls = 2 /\ ignoreRun.okBefore /\ ignoreRun.err = ""
    /\ gitignore = File(<<"m", "y">> \o DotWorktrees \o <<"\n">> \o DotWorktrees \o <<"\n">>)

StartRan == startRun.op = "start"
StartBranch == GetBranchName(startRun.name, startRun.settings.BranchPrefix)
CheckoutFailed == StartRan /\ startRun.err = "failed to checkout branch"
SameBranches(w, v) == w.local = v.local /\ w.origin = v.origin /\ w.head = v.head

\* C25 as stated: in checkout mode the branch is created only on a clean
\* worktree, and after a failed checkout the branches and the current branch
\* are those before the command.
C25_FailedCheckoutLeavesNoBranch ==
    /\ (StartRan /\ ~startRun.worktree /\ startRun.before.dirty) =>
           SameBranches(startRepo, startRun.before)
    /\ CheckoutFailed => SameBranches(startRepo, startRun.before)

\* C25 amended: the branch is created only on a clean worktree; after a
\* failed checkout the branches and the current branch are those before the
\* command when the removal of the new reference succeeded; when the removal
\* failed as well, its error is dropped, the command returns the checkout
\* error, and the new branch is left on the base commit, not checked out.
C25_RollbackIsBestEffort ==
    /\ (StartRan /\ ~startRun.worktree /\ startRun.before.dirty) =>
           SameBranches(startRepo, startRun.before)
    /\ CheckoutFailed =>
           /\ ~startRun.before.dirty
           /\ startRepo.head = startRun.before.head
           /\ startRepo.origin = startRun.before.origin
           /\ ~startRun.removeFails => startRepo = startRun.before
           /\ startRun.removeFails =>
                /\ startRepo.local[StartBranch]
                     = resolveBaseBranch(startRun.before, startRun.base)[1]
                /\ startRun.before.local[StartBranch] = NoHash
                /\ \A b \in StartBranches \ {StartBranch} :
                     startRepo.local[b] = startRun.before.local[b]

\* C25 witness: the checkout of feature/fx failed, the reference was removed
\* again and no branch feature/fx exists.
C25_Witness ==
    /\ CheckoutFailed /\ ~startRun.removeFails
    /\ StartBranch = GetBranchName(<<"f", "x">>, <<>>)
    /\ startRepo.local[StartBranch] = NoHash
    /\ startRun.base = Develop /\ startRun.before.local[Develop] = NoHash

\* The preconditions of start, read off the repository and the arguments.
PreconditionFails ==
    \/ startRun.name = <<>>
    \/ \E i \in DOMAIN startRun.name : startRun.name[i] \notin FeatureNameClass
    \/ startRun.before.local[StartBranch] # NoHash
    \/ (startRun.before.local[startRun.base] = NoHash
          /\ startRun.before.origin[startRun.base] = NoHash)
    \/ (startRun.scaffold
          /\ startRun.settings.RequirementsTemplate \notin startRun.before.templates)
    \/ (~startRun.worktree /\ startRun.before.dirty)

C22_EmptyBodyAborted ==
    /\ commitRun.body = "empty" =>
         /\ commitRun.state \in {"message-edited", "aborted"}
         /\ commitRun.no \notin checkpoints
         /\ commitRun.state = "aborted" =>
              (commitRun.last.hook = "commit-msg" /\ commitRun.last.exit = 1)
    /\ commitRun.no \in checkpoints => commitRun.state = "condensed"

\* C22 witness: the second commit of the user had no body and was aborted
\* by commit-msg, while the first one has its checkpoint.
C22_Witness ==
    /\ commitRun.no = 2 /\ commitRun.body = "empty" /\ commitRun.state = "aborted"
    /\ commitRun.placeholder
    /\ checkpoints = {1}

\* C27: a failure of the entire command in prepare-commit-msg, post-commit
\* or pre-push leaves the hook's exit status 0 and the commit or push goes
\* on; a failure in commit-msg makes the hook exit 1 and aborts the commit;
\* no hook exits with another status than 0 when its command succeeded.
C27_OnlyCommitMsgBlocks ==
    /\ commitRun.last.hook \in {"prepare-commit-msg", "post-commit", "pre-push"} =>
         commitRun.last.exit = 0
    /\ commitRun.last.hook = "prepare-commit-msg" => commitRun.state = "message-edited"
    /\ commitRun.last.hook = "post-commit" => commitRun.state \in {"committed", "condensed"}
    /\ commitRun.last.hook = "pre-push" => commitRun.push = "pushed"
    /\ commitRun.last.hook = "commit-msg" =>
         /\ commitRun.last.status # 0 => (commitRun.last.exit = 1 /\ commitRun.state = "aborted")
         /\ commitRun.last.status = 0 => (commitRun.last.exit = 0 /\ commitRun.state = "committed")
    /\ commitRun.push # "rejected"

\* C27 witness: the entire command failed in pre-push and the push went on.
C27_Witness ==
    /\ commitRun.last = [hook |-> "pre-push", status |-> 1, exit |-> 0]
    /\ commitRun.push = "pushed"

\* C21: the record of a commit has TotalCommitted = max(0, AgentLines +
\* HumanAdded); when that sum is 0, and so in every commit in which nobody
\* added a line whatever was removed, TotalCommitted and AgentPercentage are
\* 0; otherwise AgentPercentage lies between 0 and 100 (0 and 1000 tenths).
C21_AttributionRecord ==
    attrRun.phase = "committed" =>
      LET r == attrRun.record
          sum == r.AgentLines + r.HumanAdded
      IN  /\ r.TotalCommitted = (IF sum > 0 THEN sum ELSE 0)
          /\ sum = 0 => (r.TotalCommitted = 0 /\ r.AgentPercentage = 0)
          /\ sum # 0 => (r.AgentPercentage >= 0 /\ r.AgentPercentage <= 1000)
          /\ ~attrRun.added => sum = 0

\* C21 witness: the deletion-only commit: the agent removed one function,
\* the human the three lines left, and the record is all 0 but for the
\* three removed lines.
C21_Witness ==
    /\ attrRun.phase = "committed"
    /\ attrRun.worktree = {}
    /\ attrRun.record = [AgentLines |-> 0, HumanAdded |-> 0, HumanRemoved |-> 3,
                         TotalCommitted |-> 0, AgentPercentage |-> 0]

====
